---- MODULE Spec2Model ----
(***************************************************************************)
(* Conversation engine of the insurance onboarding chat                    *)
(* (backend/conversation_engine.py, backend/services/nhtsa.py,             *)
(* backend/services/openai_service.py).                                    *)
(*                                                                         *)
(* A text is a sequence of one-character strings, so that the validators   *)
(* search, trim, change case and parse it as the Python code does.  A text *)
(* the engine only passes along (a generated reply, a fallback sentence)   *)
(* is a sequence of longer chunks.  Python's None is <<>> and a present    *)
(* value v is <<v>>.                                                       *)
(***************************************************************************)
EXTENDS Integers, Sequences, FiniteSets, TLC

----------------------------------------------------------------------------
(* Optional values and characters *)

None == <<>>
Some(v) == <<v>>
IsNone(o) == o = <<>>
Get(o) == o[1]

LowerAlphabet == <<"a","b","c","d","e","f","g","h","i","j","k","l","m","n","o","p","q","r","s","t","u","v","w","x","y","z">>
UpperAlphabet == <<"A","B","C","D","E","F","G","H","I","J","K","L","M","N","O","P","Q","R","S","T","U","V","W","X","Y","Z">>
DigitAlphabet == <<"0","1","2","3","4","5","6","7","8","9">>

\* A string of the model holds the code points up to 255; a character above
\* that is written by its code point.  These are the ones the texts of the
\* model meet: capital Y with diaeresis, the Greek capital and small mu, and
\* two quotation marks.
U0178 == "U+0178"
U039C == "U+039C"
U03BC == "U+03BC"
U2018 == "U+2018"
U2039 == "U+2039"

\* the letters of U+00C0..U+00FE that str.lower and str.upper map to each other
UpperLatin == <<"À","Á","Â","Ã","Ä","Å","Æ","Ç","È","É","Ê","Ë","Ì","Í","Î","Ï","Ð","Ñ","Ò","Ó","Ô","Õ","Ö","Ø","Ù","Ú","Û","Ü","Ý","Þ">>
LowerLatin == <<"à","á","â","ã","ä","å","æ","ç","è","é","ê","ë","ì","í","î","ï","ð","ñ","ò","ó","ô","õ","ö","ø","ù","ú","û","ü","ý","þ">>
UpperLatinLetters == {UpperLatin[i] : i \in 1..30}
LowerLatinLetters == {LowerLatin[i] : i \in 1..30}

LowerLetters == {LowerAlphabet[i] : i \in 1..26}
UpperLetters == {UpperAlphabet[i] : i \in 1..26}
Letters == LowerLetters \cup UpperLetters
Digits == {DigitAlphabet[i] : i \in 1..10}

\* str.isspace: tab, line feed, vertical tab, form feed, carriage return, the
\* separators 0x1c..0x1f, the space, next line (0x85) and the no-break space
VerticalTab == ""
Separators == {"", "", "", ""}
NextLine == ""
NoBreakSpace == " "
IsSpace(c) == c \in {" ", "\t", "\n", "\r", "\f", VerticalTab, NextLine, NoBreakSpace} \cup Separators
\* the characters with a case: the letters, and the ordinal indicators
CasedChars ==
    Letters \cup UpperLatinLetters \cup LowerLatinLetters
        \cup {"ß", "ÿ", "µ", "ª", "º", U0178, U039C, U03BC}
IsCased(c) == c \in CasedChars
\* the regex class \w of a str pattern: the cased characters, the digits, the
\* superscript digits and fractions, and the underscore
IsWord(c) == c \in CasedChars \cup Digits \cup {"²", "³", "¹", "¼", "½", "¾", "_"}

\* str.lower of one character
LowerChar(c) ==
    IF c \in UpperLetters THEN LowerAlphabet[CHOOSE i \in 1..26 : UpperAlphabet[i] = c]
    ELSE IF c \in UpperLatinLetters THEN LowerLatin[CHOOSE i \in 1..30 : UpperLatin[i] = c]
    ELSE IF c = U0178 THEN "ÿ"
    ELSE IF c = U039C THEN U03BC
    ELSE c
\* str.upper of one character, a text: the sharp s becomes two characters
UpperChar(c) ==
    IF c \in LowerLetters THEN <<UpperAlphabet[CHOOSE i \in 1..26 : LowerAlphabet[i] = c]>>
    ELSE IF c \in LowerLatinLetters THEN <<UpperLatin[CHOOSE i \in 1..30 : LowerLatin[i] = c]>>
    ELSE IF c = "ß" THEN <<"S","S">>
    ELSE IF c = "ÿ" THEN <<U0178>>
    ELSE IF c \in {"µ", U03BC} THEN <<U039C>>
    ELSE <<c>>
\* the title case of one character
TitleChar(c) == IF c = "ß" THEN <<"S","s">> ELSE UpperChar(c)
DigitValue(c) == (CHOOSE i \in 1..10 : DigitAlphabet[i] = c) - 1

\* str.lower, str.upper
Lower(s) == [i \in 1..Len(s) |-> LowerChar(s[i])]
RECURSIVE Upper(_)
Upper(s) == IF s = <<>> THEN <<>> ELSE UpperChar(Head(s)) \o Upper(Tail(s))

\* str.title: a character that follows a cased character in lower case, every
\* other character in title case
RECURSIVE TitleAfter(_, _)
TitleAfter(s, cased) ==
    IF s = <<>> THEN <<>>
    ELSE (IF cased THEN <<LowerChar(Head(s))>> ELSE TitleChar(Head(s)))
             \o TitleAfter(Tail(s), IsCased(Head(s)))
Title(s) == TitleAfter(s, FALSE)

\* str.strip
RECURSIVE LStrip(_)
LStrip(s) == IF s # <<>> /\ IsSpace(Head(s)) THEN LStrip(Tail(s)) ELSE s
RECURSIVE RStrip(_)
RStrip(s) == IF s # <<>> /\ IsSpace(s[Len(s)]) THEN RStrip(SubSeq(s, 1, Len(s) - 1)) ELSE s
\* (mutant) the text left as typed
StripNothing(s) == s
Strip(s) == RStrip(LStrip(s))

\* the operator `in` on two strings
Contains(s, k) == \E i \in 1..(Len(s) - Len(k) + 1) : SubSeq(s, i, i + Len(k) - 1) = k
\* any(word in s for word in words)
ContainsAny(s, words) == \E k \in words : Contains(s, k)

\* int() of a run of digits
RECURSIVE DigitsValue(_)
DigitsValue(s) == IF s = <<>> THEN 0
                  ELSE 10 * DigitsValue(SubSeq(s, 1, Len(s) - 1)) + DigitValue(s[Len(s)])

\* the digits of an integer literal: single underscores may stand between digits
DigitGroups(s) ==
    /\ s # <<>>
    /\ \A i \in 1..Len(s) : s[i] \in Digits \cup {"_"}
    /\ s[1] \in Digits /\ s[Len(s)] \in Digits
    /\ \A i \in 1..(Len(s) - 1) : ~(s[i] = "_" /\ s[i + 1] = "_")
IsDigit(c) == c \in Digits

\* the white space int() drops around the literal: str.isspace without the
\* separators 0x1c..0x1f
IsBlank(c) == IsSpace(c) /\ c \notin Separators
RECURSIVE Unpadded(_)
Unpadded(s) == IF s # <<>> /\ IsBlank(Head(s)) THEN Unpadded(Tail(s))
               ELSE IF s # <<>> /\ IsBlank(s[Len(s)]) THEN Unpadded(SubSeq(s, 1, Len(s) - 1))
               ELSE s

\* int(text): white space around the literal is dropped, a sign may lead it;
\* None stands for the ValueError int() raises
IntOf(t) ==
    LET s == Unpadded(t)
        body == IF s # <<>> /\ s[1] \in {"+", "-"} THEN Tail(s) ELSE s
    IN IF ~DigitGroups(body) THEN None
       ELSE IF s[1] = "-" THEN Some(0 - DigitsValue(SelectSeq(body, IsDigit)))
       ELSE Some(DigitsValue(SelectSeq(body, IsDigit)))

----------------------------------------------------------------------------
(* Regular expression searches of the validators *)

\* \b before position i and after position j of a match made of \w characters
BoundaryBefore(s, i) == i = 1 \/ ~IsWord(s[i-1])
BoundaryAfter(s, j) == j = Len(s) \/ ~IsWord(s[j+1])

\* positions where \b C{n} \b matches, C a class of \w characters
FixedMatches(s, n, C) ==
    {i \in 1..(Len(s) - n + 1) :
        /\ \A k \in i..(i + n - 1) : s[k] \in C
        /\ BoundaryBefore(s, i)
        /\ BoundaryAfter(s, i + n - 1)}
Min(S) == CHOOSE x \in S : \A y \in S : x <= y
Max(S) == CHOOSE x \in S : \A y \in S : x >= y

\* re.search(r'\b(\d{5})\b', s): None or the digits
SearchZip(s) ==
    LET M == FixedMatches(s, 5, Digits)
    IN IF M = {} THEN None ELSE Some(SubSeq(s, Min(M), Min(M) + 4))

\* the characters of [A-HJ-NPR-Z0-9]
VinChars == (UpperLetters \ {"I", "O", "Q"}) \cup Digits
VinLength == 17
\* re.search(r'\b([A-HJ-NPR-Z0-9]{17})\b', s.upper()): None or the VIN
SearchVin(s) ==
    LET u == Upper(s)
        M == FixedMatches(u, VinLength, VinChars)
    IN IF M = {} THEN None ELSE Some(SubSeq(u, Min(M), Min(M) + VinLength - 1))

\* re.search(r'\b(19\d{2}|20\d{2})\b', s): None or the four digits
SearchYear(s) ==
    LET M == {i \in FixedMatches(s, 4, Digits) :
                 SubSeq(s, i, i + 1) \in {<<"1","9">>, <<"2","0">>}}
    IN IF M = {} THEN None ELSE Some(SubSeq(s, Min(M), Min(M) + 3))

\* re.search(r'\b([1-7])\b', s): None or the digit
SearchDay(s) ==
    LET M == FixedMatches(s, 1, {"1", "2", "3", "4", "5", "6", "7"})
    IN IF M = {} THEN None ELSE Some(SubSeq(s, Min(M), Min(M)))

\* re.search(r'\b(\d+)\b', s): None or the first run of digits that stands
\* between two word boundaries
SearchNumber(s) ==
    LET M == {p \in (1..Len(s)) \X (1..Len(s)) :
                 /\ p[1] <= p[2]
                 /\ \A k \in p[1]..p[2] : s[k] \in Digits
                 /\ BoundaryBefore(s, p[1])
                 /\ BoundaryAfter(s, p[2])}
        i == Min({p[1] : p \in M})
        j == CHOOSE j \in 1..Len(s) : <<i, j>> \in M
    IN IF M = {} THEN None ELSE Some(SubSeq(s, i, j))

\* str.replace(',', '')
RECURSIVE RemoveCommas(_)
RemoveCommas(s) == IF s = <<>> THEN <<>>
                   ELSE IF Head(s) = "," THEN RemoveCommas(Tail(s))
                   ELSE <<Head(s)>> \o RemoveCommas(Tail(s))

EmailLocalChars == Letters \cup Digits \cup {".", "_", "%", "+", "-"}
EmailDomainChars == Letters \cup Digits \cup {".", "-"}
\* re.search(r'[a-zA-Z0-9._%+-]+@[a-zA-Z0-9.-]+\.[a-zA-Z]{2,}', s): None or the
\* match.  From a start i the local part runs to the "@" at a; the domain is
\* taken greedily, so the "." is the last one of the domain run that has a
\* domain character before it and two letters after it, and the match ends with
\* the run of letters after that ".".
RunEnd(s, i, C) == Max({j \in (i-1)..Len(s) : \A k \in i..j : s[k] \in C})
EmailAt(s, i) ==
    LET a == RunEnd(s, i, EmailLocalChars) + 1
        d == RunEnd(s, a + 1, EmailDomainChars)
        P == {p \in (a + 2)..d :
                 /\ s[p] = "."
                 /\ RunEnd(s, p + 1, Letters) >= p + 2}
    IN IF a > i /\ a <= Len(s) /\ s[a] = "@" /\ P # {}
       THEN Some(SubSeq(s, i, RunEnd(s, Max(P) + 1, Letters)))
       ELSE None
SearchEmail(s) ==
    LET M == {i \in 1..Len(s) : EmailAt(s, i) # None}
    IN IF M = {} THEN None ELSE EmailAt(s, Min(M))

----------------------------------------------------------------------------
(* services/nhtsa.py: the vehicle lookup.  What the remote API answers is   *)
(* an input of the turn: a timeout, any other failure (a connection error,  *)
(* an HTTP error status, a body that is not the expected JSON), or the      *)
(* "Results" rows.  A row holds ErrorCode, Make, Model, ModelYear,          *)
(* BodyClass and ErrorText, each None (absent) or a text.                   *)

SuspiciousMakes == {<<"S","H","E","R","M","A","N"," ","+"," ","R","E","I","L","L","Y">>, <<"I","N","C","O","M","P","L","E","T","E">>, <<"N","O","T"," ","A","P","P","L","I","C","A","B","L","E">>}

\* the dictionaries decode_vin returns; a key the code leaves out is None
DecodeError(text) ==
    [valid |-> FALSE, error |-> Some(text), make |-> None, model |-> None,
     year |-> None, body_class |-> None, error_code |-> None, vin |-> None]
DecodeValid(make, model, year, body_class, error_code) ==
    [valid |-> TRUE, error |-> None, make |-> make, model |-> model,
     year |-> year, body_class |-> body_class, error_code |-> Some(error_code),
     vin |-> None]

\* int(str(error_code_raw).strip()) if error_code_raw else 0, and 0 on ValueError
ErrorCodeOf(row) ==
    LET raw == IF row.ErrorCode = None THEN <<"0">> ELSE Get(row.ErrorCode)
    IN IF raw = <<>> \/ IntOf(Strip(raw)) = None THEN 0 ELSE Get(IntOf(Strip(raw)))

\* `not text or text.strip() == ""`
Blank(o) == o = None \/ Strip(Get(o)) = <<>>

DecodeRow(row) ==
    LET error_code == ErrorCodeOf(row)
        make == row.Make
        year == row.ModelYear
    IN IF error_code >= 7
       THEN DecodeError(<<"Invalid VIN: ">> \o
                        (IF row.ErrorText = None THEN <<"Invalid VIN format">>
                         ELSE Get(row.ErrorText)))
       ELSE IF Blank(make)
       THEN DecodeError(<<"Could not decode VIN. Please verify it's correct.">>)
       ELSE IF /\ (Upper(Get(make)) \in SuspiciousMakes \/ Contains(Get(make), <<"+">>))
               /\ Blank(year)
       THEN DecodeError(<<"This VIN doesn't appear to be for a standard consumer vehicle.">>)
       ELSE DecodeValid(make, row.Model, year, row.BodyClass, error_code)

\* NHTSAService.decode_vin(vin) on the API's answer
decode_vin(vin, api) ==
    IF api.kind = "timeout"
    THEN DecodeError(<<"Vehicle verification service timed out. Please try again.">>)
    ELSE IF api.kind = "error"
    THEN DecodeError(<<"Error verifying vehicle: ", "str(e)">>)
    ELSE IF api.results = <<>>
    THEN DecodeError(<<"Could not decode VIN. Please verify it's correct.">>)
    ELSE DecodeRow(api.results[1])

\* NHTSAService.validate_year_make(year, make) on the API's answers: the makes
\* of cars and, asked only when the make is not among them, all makes
MakeValid == [valid |-> TRUE, error |-> None, warning |-> None]
MakeWarning == [valid |-> TRUE, error |-> None,
                warning |-> Some(<<"Could not verify make, proceeding anyway.">>)]
MakeInvalid(make) ==
    [valid |-> FALSE,
     error |-> Some(<<"'">> \o make \o
                    <<"' doesn't appear to be a valid vehicle make. Please check the spelling.">>),
     warning |-> None]
\* (mutant) a failing makes lookup treated as a rejection
validate_year_make_blocking(year, make, api) ==
    IF api.cars.kind # "ok" THEN MakeInvalid(make)
    ELSE IF Upper(make) \in {Upper(m) : m \in api.cars.makes} THEN MakeValid
    ELSE IF api.all.kind # "ok" THEN MakeInvalid(make)
    ELSE IF Upper(make) \in {Upper(m) : m \in api.all.makes} THEN MakeValid
    ELSE MakeInvalid(make)

validate_year_make(year, make, api) ==
    IF api.cars.kind # "ok" THEN MakeWarning
    ELSE IF Upper(make) \in {Upper(m) : m \in api.cars.makes} THEN MakeValid
    ELSE IF api.all.kind # "ok" THEN MakeWarning
    ELSE IF Upper(make) \in {Upper(m) : m \in api.all.makes} THEN MakeValid
    ELSE MakeInvalid(make)

----------------------------------------------------------------------------
(* services/openai_service.py *)

ZIP_CODE == "zip_code"
FULL_NAME == "full_name"
EMAIL == "email"
VEHICLE_CHOICE == "vehicle_choice"
VEHICLE_VIN == "vehicle_vin"
VEHICLE_YEAR == "vehicle_year"
VEHICLE_MAKE == "vehicle_make"
VEHICLE_BODY == "vehicle_body"
VEHICLE_USE == "vehicle_use"
BLIND_SPOT_WARNING == "blind_spot_warning"
COMMUTE_DAYS == "commute_days"
COMMUTE_MILES == "commute_miles"
ANNUAL_MILEAGE == "annual_mileage"
ADD_ANOTHER_VEHICLE == "add_another_vehicle"
LICENSE_TYPE == "license_type"
LICENSE_STATUS == "license_status"
COMPLETE == "complete"

States == {ZIP_CODE, FULL_NAME, EMAIL, VEHICLE_CHOICE, VEHICLE_VIN, VEHICLE_YEAR,
           VEHICLE_MAKE, VEHICLE_BODY, VEHICLE_USE, BLIND_SPOT_WARNING, COMMUTE_DAYS,
           COMMUTE_MILES, ANNUAL_MILEAGE, ADD_ANOTHER_VEHICLE, LICENSE_TYPE,
           LICENSE_STATUS, COMPLETE}

frustration_keywords ==
    {<<"f","r","u","s","t","r","a","t","e","d">>, <<"a","n","g","r","y">>, <<"a","n","n","o","y","e","d">>, <<"s","p","e","a","k"," ","t","o"," ","h","u","m","a","n">>, <<"t","a","l","k"," ","t","o"," ","s","o","m","e","o","n","e">>,
     <<"r","e","a","l"," ","p","e","r","s","o","n">>, <<"a","g","e","n","t">>, <<"r","e","p","r","e","s","e","n","t","a","t","i","v","e">>, <<"t","h","i","s"," ","i","s"," ","r","i","d","i","c","u","l","o","u","s">>,
     <<"h","a","t","e"," ","t","h","i","s">>, <<"s","t","u","p","i","d">>, <<"u","s","e","l","e","s","s">>, <<"w","a","s","t","e"," ","o","f"," ","t","i","m","e">>, <<"g","i","v","e"," ","u","p">>,
     <<"h","e","l","p"," ","m","e">>, <<"n","o","t"," ","w","o","r","k","i","n","g">>, <<"d","o","e","s","n","'","t"," ","w","o","r","k">>, <<"b","r","o","k","e","n">>}

\* (mutant) a detector that flags nothing
check_frustration_never(message) == FALSE

\* OpenAIService.check_frustration(message)
check_frustration(message) == ContainsAny(Lower(message), frustration_keywords)

\* fallback_responses.get(current_state, "I'm sorry, could you repeat that?")
fallback_responses(current_state) ==
    CASE current_state = ZIP_CODE -> <<"Could you please provide your ZIP code?">>
      [] current_state = FULL_NAME -> <<"What is your full name?">>
      [] current_state = EMAIL -> <<"What is your email address?">>
      [] current_state = VEHICLE_CHOICE ->
            <<"Would you like to enter a VIN or provide Year, Make, and Body Type?">>
      [] current_state = VEHICLE_VIN -> <<"Please enter the 17-character VIN.">>
      [] current_state = VEHICLE_YEAR -> <<"What year is the vehicle?">>
      [] current_state = VEHICLE_MAKE -> <<"What is the make of the vehicle?">>
      [] current_state = VEHICLE_BODY -> <<"What is the body type?">>
      [] current_state = VEHICLE_USE ->
            <<"How do you use this vehicle? (Commuting, Commercial, Farming, Business)">>
      [] current_state = BLIND_SPOT_WARNING ->
            <<"Does this vehicle have blind spot warning? (Yes/No)">>
      [] current_state = COMMUTE_DAYS -> <<"How many days per week do you commute?">>
      [] current_state = COMMUTE_MILES -> <<"How many miles is your one-way commute?">>
      [] current_state = ANNUAL_MILEAGE ->
            <<"Thank you! Now, what is your estimated annual mileage for this vehicle?">>
      [] current_state = ADD_ANOTHER_VEHICLE -> <<"Would you like to add another vehicle?">>
      [] current_state = LICENSE_TYPE ->
            <<"What type of US license do you have? (Foreign, Personal, Commercial)">>
      [] current_state = LICENSE_STATUS -> <<"What is your license status? (Valid/Suspended)">>
      [] current_state = COMPLETE ->
            <<"Thank you! Your information has been collected successfully. You can now start a new session if needed.">>
      [] OTHER -> <<"I'm sorry, could you repeat that?">>

\* (mutant) one fallback sentence whatever the state
generate_response_one_fallback(current_state, user_message, conversation_history, context, additional_context, completion) ==
    IF completion = None THEN fallback_responses(ZIP_CODE)
    ELSE Strip(Get(completion))

\* OpenAIService.generate_response(...) on the completion API's answer: None
\* when the call (or reading its answer) raises, else the content it returns.
\* The prompt built from the arguments reaches only the API.
generate_response(current_state, user_message, conversation_history, context, additional_context, completion) ==
    IF completion = None THEN fallback_responses(current_state)
    ELSE Strip(Get(completion))

----------------------------------------------------------------------------
(* conversation_engine.py: the records *)

\* a Vehicle row as Vehicle(conversation_id=...) creates it
NewVehicle ==
    [vin |-> None, year |-> None, make |-> None, body_type |-> None,
     vehicle_use |-> None, blind_spot_warning |-> None, days_per_week |-> None,
     one_way_miles |-> None, annual_mileage |-> None]

\* a log entry
Message(role, content) == [role |-> role, content |-> content]

\* The literal of the source begins with the four characters U+00F0 U+0178
\* U+2018 U+2039 (the bytes of a waving hand read as Windows-1252) and a space.
welcome == <<"ð", U0178, U2018, U2039, " ", "Hi there! Welcome to our insurance onboarding. I'll help you get set up quickly. Let's start with your ZIP code - what is it?">>

\* a Conversation row after get_welcome_message
NewConversation ==
    [current_state |-> ZIP_CODE, zip_code |-> None, full_name |-> None,
     email |-> None, license_type |-> None, license_status |-> None,
     vehicles |-> <<>>, messages |-> <<Message("assistant", welcome)>>]

\* the values a validator extracts
StrValue(s) == [type |-> "str", val |-> s]
IntValue(n) == [type |-> "int", val |-> n]
BoolValue(b) == [type |-> "bool", val |-> b]
DictValue(d) == [type |-> "dict", val |-> d]
\* isinstance(value, dict) and 'vin_data' in value
HasVinData(value) == value.type = "dict" /\ "vin_data" \in DOMAIN value.val

\* (mutant) the snapshot with its null fields kept
get_context_unfiltered(conversation) ==
    [zip_code |-> conversation.zip_code, full_name |-> conversation.full_name,
     email |-> conversation.email, license_type |-> conversation.license_type,
     license_status |-> conversation.license_status,
     vehicles_count |-> Len(conversation.vehicles)]

\* ConversationEngine._get_context
get_context(conversation) ==
    LET context == [zip_code |-> conversation.zip_code,
                    full_name |-> conversation.full_name,
                    email |-> conversation.email,
                    license_type |-> conversation.license_type,
                    license_status |-> conversation.license_status,
                    vehicles_count |-> Some(Len(conversation.vehicles))]
    IN [k \in {k \in DOMAIN context : context[k] # None} |-> Get(context[k])]

\* ConversationEngine._get_current_vehicle: None or the last vehicle
get_current_vehicle(conversation) ==
    IF conversation.vehicles # <<>>
    THEN Some(conversation.vehicles[Len(conversation.vehicles)])
    ELSE None

----------------------------------------------------------------------------
(* ConversationEngine._validate_and_extract *)

Accept(value) == [is_valid |-> TRUE, value |-> Some(value), error_msg |-> None]
Reject(error_msg) == [is_valid |-> FALSE, value |-> None, error_msg |-> error_msg]

MinYear == 1900
MaxYear == 2026

valid_bodies == <<<<"s","e","d","a","n">>, <<"s","u","v">>, <<"t","r","u","c","k">>, <<"c","o","u","p","e">>, <<"h","a","t","c","h","b","a","c","k">>, <<"v","a","n">>,
                  <<"w","a","g","o","n">>, <<"c","o","n","v","e","r","t","i","b","l","e">>, <<"m","i","n","i","v","a","n">>, <<"p","i","c","k","u","p">>>>

\* a 17-character VIN in the text: decode it, and accept the decode result
\* (with the VIN added) when it is valid
InlineVin(result) == DictValue([choice |-> <<"v","i","n">>, vin_data |-> result])
ValidateVin(vin, api, inline) ==
    LET result == decode_vin(vin, api)
        found == [result EXCEPT !.vin = Some(vin)]
    IN IF result.valid
       THEN Accept(IF inline THEN InlineVin(found) ELSE DictValue(found))
       ELSE Reject(IF result.error = None THEN Some(<<"Invalid VIN.">>) ELSE result.error)

\* lines 70-86: the vehicle_choice branch; user_input is stripped
validate_vehicle_choice_keywords_first(user_input, lookup) ==
    IF Contains(Lower(user_input), <<"v","i","n">>) THEN Accept(StrValue(<<"v","i","n">>))
    ELSE IF ContainsAny(Lower(user_input), {<<"y","e","a","r">>, <<"m","a","k","e">>, <<"m","a","n","u","a","l">>, <<"t","y","p","e">>, <<"o","t","h","e","r">>})
    THEN Accept(StrValue(<<"m","a","n","u","a","l">>))
    ELSE IF SearchVin(user_input) # None
    THEN ValidateVin(Get(SearchVin(user_input)), lookup.decode, TRUE)
    ELSE Reject(None)

validate_vehicle_choice(user_input, lookup) ==
    IF SearchVin(user_input) # None
    THEN ValidateVin(Get(SearchVin(user_input)), lookup.decode, TRUE)
    ELSE IF Contains(Lower(user_input), <<"v","i","n">>) THEN Accept(StrValue(<<"v","i","n">>))
    ELSE IF ContainsAny(Lower(user_input), {<<"y","e","a","r">>, <<"m","a","k","e">>, <<"m","a","n","u","a","l">>, <<"t","y","p","e">>, <<"o","t","h","e","r">>})
    THEN Accept(StrValue(<<"m","a","n","u","a","l">>))
    ELSE Reject(None)

\* lines 132-142: the vehicle_use branch; user_input is stripped
validate_vehicle_use_business_first(user_input) ==
    IF Contains(Lower(user_input), <<"b","u","s","i","n","e","s","s">>) THEN Accept(StrValue(<<"b","u","s","i","n","e","s","s">>))
    ELSE IF Contains(Lower(user_input), <<"f","a","r","m">>) THEN Accept(StrValue(<<"f","a","r","m","i","n","g">>))
    ELSE IF Contains(Lower(user_input), <<"c","o","m","m","e","r","c","i","a","l">>) THEN Accept(StrValue(<<"c","o","m","m","e","r","c","i","a","l">>))
    ELSE IF Contains(Lower(user_input), <<"c","o","m","m","u","t">>) THEN Accept(StrValue(<<"c","o","m","m","u","t","i","n","g">>))
    ELSE Reject(Some(<<"Please specify: Commuting, Commercial, Farming, or Business.">>))

validate_vehicle_use(user_input) ==
    IF Contains(Lower(user_input), <<"c","o","m","m","u","t">>) THEN Accept(StrValue(<<"c","o","m","m","u","t","i","n","g">>))
    ELSE IF Contains(Lower(user_input), <<"c","o","m","m","e","r","c","i","a","l">>) THEN Accept(StrValue(<<"c","o","m","m","e","r","c","i","a","l">>))
    ELSE IF Contains(Lower(user_input), <<"f","a","r","m">>) THEN Accept(StrValue(<<"f","a","r","m","i","n","g">>))
    ELSE IF Contains(Lower(user_input), <<"b","u","s","i","n","e","s","s">>) THEN Accept(StrValue(<<"b","u","s","i","n","e","s","s">>))
    ELSE Reject(Some(<<"Please specify: Commuting, Commercial, Farming, or Business.">>))

validate_and_extract(state, raw_input, conversation, lookup) ==
    LET user_input == Strip(raw_input)
        lower == Lower(user_input)
    IN
    CASE state = ZIP_CODE ->
            IF SearchZip(user_input) # None
            THEN Accept(StrValue(Get(SearchZip(user_input))))
            ELSE Reject(Some(<<"Please provide a valid 5-digit ZIP code.">>))
      [] state = FULL_NAME ->
            IF Len(user_input) >= 2
            THEN Accept(StrValue(user_input))
            ELSE Reject(Some(<<"Please provide your full name.">>))
      [] state = EMAIL ->
            IF SearchEmail(user_input) # None
            THEN Accept(StrValue(Lower(Get(SearchEmail(user_input)))))
            ELSE Reject(Some(<<"Please provide a valid email address.">>))
      [] state = VEHICLE_CHOICE -> validate_vehicle_choice(user_input, lookup)
      [] state = VEHICLE_VIN ->
            IF SearchVin(user_input) # None
            THEN ValidateVin(Get(SearchVin(user_input)), lookup.decode, FALSE)
            ELSE Reject(Some(<<"Please provide a valid 17-character VIN.">>))
      [] state = VEHICLE_YEAR ->
            IF /\ SearchYear(user_input) # None
               /\ MinYear <= DigitsValue(Get(SearchYear(user_input)))
               /\ DigitsValue(Get(SearchYear(user_input))) <= MaxYear
            THEN Accept(IntValue(DigitsValue(Get(SearchYear(user_input)))))
            ELSE Reject(Some(<<"Please provide a valid vehicle year (e.g., 2020).">>))
      [] state = VEHICLE_MAKE ->
            IF Len(user_input) >= 2
            THEN LET vehicle == get_current_vehicle(conversation)
                     year == IF vehicle # None THEN Get(vehicle).year ELSE Some(2020)
                     result == validate_year_make(year, user_input, lookup.makes)
                 IN IF result.valid
                    THEN Accept(StrValue(Title(user_input)))
                    ELSE Reject(IF result.error = None THEN Some(<<"Invalid make.">>)
                                ELSE result.error)
            ELSE Reject(Some(<<"Please provide the vehicle make.">>))
      [] state = VEHICLE_BODY ->
            LET found == {i \in 1..Len(valid_bodies) : Contains(lower, valid_bodies[i])}
            IN IF found # {} THEN Accept(StrValue(Title(valid_bodies[Min(found)])))
               ELSE IF Len(user_input) >= 2 THEN Accept(StrValue(Title(user_input)))
               ELSE Reject(Some(<<"Please provide the body type (e.g., Sedan, SUV, Truck).">>))
      [] state = VEHICLE_USE -> validate_vehicle_use(user_input)
      [] state = BLIND_SPOT_WARNING ->
            IF ContainsAny(lower, {<<"y","e","s">>, <<"y","e","a","h">>, <<"y","e","p">>, <<"h","a","v","e">>, <<"e","q","u","i","p","p","e","d">>, <<"d","o","e","s">>})
            THEN Accept(BoolValue(TRUE))
            ELSE IF ContainsAny(lower, {<<"n","o">>, <<"n","o","p","e">>, <<"n","o","t">>, <<"d","o","n","'","t">>, <<"d","o","e","s","n","'","t">>})
            THEN Accept(BoolValue(FALSE))
            ELSE Reject(Some(<<"Please answer Yes or No.">>))
      [] state = COMMUTE_DAYS ->
            IF SearchDay(user_input) # None
            THEN Accept(IntValue(DigitsValue(Get(SearchDay(user_input)))))
            ELSE Reject(Some(<<"Please provide days per week (1-7).">>))
      [] state = COMMUTE_MILES ->
            IF /\ SearchNumber(user_input) # None
               /\ DigitsValue(Get(SearchNumber(user_input))) > 0
            THEN Accept(IntValue(DigitsValue(Get(SearchNumber(user_input)))))
            ELSE Reject(Some(<<"Please provide the one-way distance in miles.">>))
      [] state = ANNUAL_MILEAGE ->
            IF /\ SearchNumber(RemoveCommas(user_input)) # None
               /\ DigitsValue(Get(SearchNumber(RemoveCommas(user_input)))) > 0
            THEN Accept(IntValue(DigitsValue(Get(SearchNumber(RemoveCommas(user_input))))))
            ELSE Reject(Some(<<"Please provide estimated annual mileage.">>))
      [] state = ADD_ANOTHER_VEHICLE ->
            IF ContainsAny(lower, {<<"y","e","s">>, <<"y","e","a","h">>, <<"y","e","p">>, <<"a","n","o","t","h","e","r">>, <<"a","d","d">>, <<"m","o","r","e">>})
            THEN Accept(BoolValue(TRUE))
            ELSE IF ContainsAny(lower, {<<"n","o">>, <<"n","o","p","e">>, <<"d","o","n","e">>, <<"t","h","a","t","'","s"," ","a","l","l">>, <<"t","h","a","t","'","s"," ","i","t">>})
            THEN Accept(BoolValue(FALSE))
            ELSE Reject(Some(<<"Would you like to add another vehicle? (Yes/No)">>))
      [] state = LICENSE_TYPE ->
            IF Contains(lower, <<"f","o","r","e","i","g","n">>) THEN Accept(StrValue(<<"f","o","r","e","i","g","n">>))
            ELSE IF Contains(lower, <<"p","e","r","s","o","n","a","l">>) THEN Accept(StrValue(<<"p","e","r","s","o","n","a","l">>))
            ELSE IF Contains(lower, <<"c","o","m","m","e","r","c","i","a","l">>) \/ Contains(lower, <<"c","d","l">>)
            THEN Accept(StrValue(<<"c","o","m","m","e","r","c","i","a","l">>))
            ELSE Reject(Some(<<"Please specify: Foreign, Personal, or Commercial.">>))
      [] state = LICENSE_STATUS ->
            IF Contains(lower, <<"v","a","l","i","d">>) \/ Contains(lower, <<"a","c","t","i","v","e">>) \/ Contains(lower, <<"g","o","o","d">>)
            THEN Accept(StrValue(<<"v","a","l","i","d">>))
            ELSE IF Contains(lower, <<"s","u","s","p","e","n","d">>) THEN Accept(StrValue(<<"s","u","s","p","e","n","d","e","d">>))
            ELSE Reject(Some(<<"Please specify: Valid or Suspended.">>))
      [] OTHER -> Accept(StrValue(user_input))

----------------------------------------------------------------------------
(* ConversationEngine._get_next_state *)

\* the truth value Python gives an extracted value in `if value:`
Truthy(value) ==
    CASE value.type = "bool" -> value.val
      [] value.type = "int" -> value.val # 0
      [] value.type = "str" -> value.val # <<>>
      [] OTHER -> TRUE

\* (mutant) the static successors with the flow starting over after COMPLETE
state_transitions_restart(current_state) ==
    CASE current_state = ZIP_CODE -> FULL_NAME
      [] current_state = FULL_NAME -> EMAIL
      [] current_state = EMAIL -> VEHICLE_CHOICE
      [] current_state = COMPLETE -> ZIP_CODE
      [] OTHER -> current_state

\* (mutant) the email is never asked
state_transitions_skip_email(current_state) ==
    CASE current_state = ZIP_CODE -> FULL_NAME
      [] current_state = FULL_NAME -> VEHICLE_CHOICE
      [] current_state = EMAIL -> VEHICLE_CHOICE
      [] OTHER -> current_state

\* the static successors: state_transitions.get(current_state, current_state)
state_transitions(current_state) ==
    CASE current_state = ZIP_CODE -> FULL_NAME
      [] current_state = FULL_NAME -> EMAIL
      [] current_state = EMAIL -> VEHICLE_CHOICE
      [] OTHER -> current_state

\* (mutant) the body type asked after every choice
after_vehicle_choice_body(value) == VEHICLE_BODY

after_vehicle_choice(value) ==
    IF HasVinData(value) THEN VEHICLE_USE
    ELSE IF value = StrValue(<<"v","i","n">>) THEN VEHICLE_VIN
    ELSE VEHICLE_YEAR

\* (mutant) no vehicle taken for a commuting one
IsCommutingNever(vehicle) == FALSE

\* (mutant) every open vehicle taken for a commuting one
IsCommutingAlways(vehicle) == vehicle # None

\* vehicle and vehicle.vehicle_use == 'commuting'
IsCommuting(vehicle) == vehicle # None /\ Get(vehicle).vehicle_use = Some(<<"c","o","m","m","u","t","i","n","g">>)
after_blind_spot_warning(conversation) ==
    IF IsCommuting(get_current_vehicle(conversation)) THEN COMMUTE_DAYS ELSE ANNUAL_MILEAGE

after_add_another_vehicle(value) ==
    IF Truthy(value) THEN VEHICLE_CHOICE ELSE LICENSE_TYPE

\* (mutant) the license type asked again
after_license_type_again(value) == LICENSE_TYPE

\* (mutant) the status asked of every license type
after_license_type_always(value) == LICENSE_STATUS

after_license_type(value) ==
    IF value = StrValue(<<"f","o","r","e","i","g","n">>) THEN COMPLETE ELSE LICENSE_STATUS

get_next_state(current_state, value, conversation) ==
    CASE current_state = VEHICLE_CHOICE -> after_vehicle_choice(value)
      [] current_state = VEHICLE_VIN -> VEHICLE_USE
      [] current_state = VEHICLE_YEAR -> VEHICLE_MAKE
      [] current_state = VEHICLE_MAKE -> VEHICLE_BODY
      [] current_state = VEHICLE_BODY -> VEHICLE_USE
      [] current_state = VEHICLE_USE -> BLIND_SPOT_WARNING
      [] current_state = BLIND_SPOT_WARNING -> after_blind_spot_warning(conversation)
      [] current_state = COMMUTE_DAYS -> COMMUTE_MILES
      [] current_state = COMMUTE_MILES -> ADD_ANOTHER_VEHICLE
      [] current_state = ANNUAL_MILEAGE -> ADD_ANOTHER_VEHICLE
      [] current_state = ADD_ANOTHER_VEHICLE -> after_add_another_vehicle(value)
      [] current_state = LICENSE_TYPE -> after_license_type(value)
      [] current_state = LICENSE_STATUS -> COMPLETE
      [] OTHER -> state_transitions(current_state)

----------------------------------------------------------------------------
(* ConversationEngine._save_value.  The result holds the conversation as the *)
(* object in memory has it (`memory`), as the last db.commit() stored it     *)
(* (`committed`), and whether the call raised before its last commit.        *)

Saved(conversation) ==
    [memory |-> conversation, committed |-> conversation, raised |-> FALSE]

\* (mutant) the write landing on the first vehicle
WithFirstVehicle(conversation, v) ==
    [conversation EXCEPT !.vehicles[1] = v]

\* the open vehicle replaced by v
WithCurrentVehicle(conversation, v) ==
    [conversation EXCEPT !.vehicles[Len(conversation.vehicles)] = v]

\* vehicle.<field> = value on the open vehicle; nothing without a vehicle
SetVehicleField(conversation, field, value) ==
    IF get_current_vehicle(conversation) # None
    THEN WithCurrentVehicle(conversation,
             [Get(get_current_vehicle(conversation)) EXCEPT ![field] = value])
    ELSE conversation

\* int(data.get('year')) if data.get('year') else None; raises on a year that
\* is no integer
YearRaises(data) == data.year # None /\ Get(data.year) # <<>> /\ IntOf(Get(data.year)) = None
YearOf(data) == IF data.year = None \/ Get(data.year) = <<>> THEN None ELSE IntOf(Get(data.year))

\* the four assignments from a decode result, up to the one that raises
WithVinData(vehicle, data) ==
    IF YearRaises(data)
    THEN [vehicle EXCEPT !.vin = data.vin]
    ELSE [vehicle EXCEPT !.vin = data.vin, !.year = YearOf(data),
                         !.make = data.make, !.body_type = data.body_class]

\* the VEHICLE_CHOICE branch: a new vehicle, committed, then the decode result
\* of an inline VIN
save_vehicle_choice(value, conversation) ==
    LET created == [conversation EXCEPT !.vehicles = Append(@, NewVehicle)]
        filled == WithCurrentVehicle(created, WithVinData(NewVehicle, value.val.vin_data))
    IN IF ~HasVinData(value) THEN Saved(created)
       ELSE IF YearRaises(value.val.vin_data)
       THEN [memory |-> filled, committed |-> created, raised |-> TRUE]
       ELSE Saved(filled)

\* the VEHICLE_VIN branch: the decode result on the open vehicle
save_vehicle_vin(value, conversation) ==
    LET vehicle == get_current_vehicle(conversation)
        filled == WithCurrentVehicle(conversation, WithVinData(Get(vehicle), value.val))
    IN IF vehicle = None \/ value.type # "dict" THEN Saved(conversation)
       ELSE IF YearRaises(value.val)
       THEN [memory |-> filled, committed |-> conversation, raised |-> TRUE]
       ELSE Saved(filled)

save_value(state, value, conversation) ==
    CASE state = ZIP_CODE -> Saved([conversation EXCEPT !.zip_code = Some(value.val)])
      [] state = FULL_NAME -> Saved([conversation EXCEPT !.full_name = Some(value.val)])
      [] state = EMAIL -> Saved([conversation EXCEPT !.email = Some(value.val)])
      [] state = VEHICLE_CHOICE -> save_vehicle_choice(value, conversation)
      [] state = VEHICLE_VIN -> save_vehicle_vin(value, conversation)
      [] state = VEHICLE_YEAR ->
            Saved(SetVehicleField(conversation, "year", Some(value.val)))
      [] state = VEHICLE_MAKE ->
            Saved(SetVehicleField(conversation, "make", Some(value.val)))
      [] state = VEHICLE_BODY ->
            Saved(SetVehicleField(conversation, "body_type", Some(value.val)))
      [] state = VEHICLE_USE ->
            Saved(SetVehicleField(conversation, "vehicle_use", Some(value.val)))
      [] state = BLIND_SPOT_WARNING ->
            Saved(SetVehicleField(conversation, "blind_spot_warning", Some(value.val)))
      [] state = COMMUTE_DAYS ->
            Saved(SetVehicleField(conversation, "days_per_week", Some(value.val)))
      [] state = COMMUTE_MILES ->
            Saved(SetVehicleField(conversation, "one_way_miles", Some(value.val)))
      [] state = ANNUAL_MILEAGE ->
            Saved(SetVehicleField(conversation, "annual_mileage", Some(value.val)))
      [] state = LICENSE_TYPE -> Saved([conversation EXCEPT !.license_type = Some(value.val)])
      [] state = LICENSE_STATUS ->
            Saved([conversation EXCEPT !.license_status = Some(value.val)])
      [] OTHER -> Saved(conversation)

----------------------------------------------------------------------------
(* ConversationEngine.process_message.  `env` holds what the collaborators   *)
(* answer during the call: env.lookup.decode and env.lookup.makes the        *)
(* vehicle API, env.completion the completion API (None: it fails),          *)
(* env.quote the quote service, and env.rollback whether the caller's        *)
(* session drops the writes that were not committed when the call raises.    *)
(* The result is the conversation after the call and a record of the call.   *)

HistoryWindow == 10

\* conversation.messages[-10:] as role/content pairs
conversation_history(conversation) ==
    LET n == Len(conversation.messages)
    IN SubSeq(conversation.messages, IF n > HistoryWindow THEN n - HistoryWindow + 1 ELSE 1, n)

\* ZenQuotesService.get_quote
get_quote(env) == env.quote

frustrated_response(quote) ==
    <<"I understand this can be frustrating. Here's something to brighten your day:\n\n">>
    \o quote \o <<"\n\nI'm here to help. Let's continue when you're ready.">>

\* the arguments of generate_response
GenerateCall(current_state, user_message, history, context, additional_context) ==
    [current_state |-> current_state, user_message |-> user_message,
     conversation_history |-> history, context |-> context,
     additional_context |-> additional_context]

\* (mutant) the reply stored in place of the log
ReplyOnly(conversation, response) ==
    [conversation EXCEPT !.messages = <<Message("assistant", response)>>]

\* the assistant message appended to the log
Reply(conversation, response) ==
    [conversation EXCEPT !.messages = Append(@, Message("assistant", response))]

\* lines 404-411: the accepted value saved, then the state advanced and
\* committed; raised when _save_value raises, which leaves the state where it
\* was and the last commit the one _save_value made
accept_value(current_state, value, logged) ==
    CHOOSE outcome \in
        {IF saved.raised THEN saved
         ELSE Saved([saved.memory EXCEPT !.current_state =
                        get_next_state(current_state, value, saved.memory)])
            : saved \in {save_value(current_state, value, logged)}} : TRUE

\* lines 419-437: the reply generated for the conversation as the turn left it
\* and appended to the log; nothing of this when the turn raised
answer_turn(logged, call, user_message, env, v, additional_context, outcome) ==
    IF outcome.raised
    THEN [conversation |-> IF env.rollback THEN outcome.committed ELSE outcome.memory,
          call |-> [call EXCEPT !.is_valid = v.is_valid, !.value = v.value,
                                !.error_msg = v.error_msg, !.raised = TRUE]]
    ELSE CHOOSE result \in
        {[conversation |-> Reply(outcome.memory, response),
          call |-> [call EXCEPT !.is_valid = v.is_valid, !.value = v.value,
                                !.error_msg = v.error_msg,
                                !.generate = Some(generate),
                                !.response = Some(response)]]
            : generate \in {GenerateCall(outcome.memory.current_state, user_message,
                                         conversation_history(logged),
                                         get_context(outcome.memory), additional_context)},
              response \in {generate_response(outcome.memory.current_state, user_message,
                                              conversation_history(logged),
                                              get_context(outcome.memory),
                                              additional_context, env.completion)}} : TRUE

\* lines 402-417: what the validator's answer v does to the conversation (an
\* accepted value is saved and the state advanced), and the guidance a
\* rejection leaves for the reply generator
turn_outcome(logged, v) ==
    IF v.is_valid /\ v.value # None
    THEN accept_value(logged.current_state, Get(v.value), logged)
    ELSE [memory |-> logged, committed |-> logged, raised |-> FALSE]
turn_guidance(v) ==
    IF ~(v.is_valid /\ v.value # None) /\ v.error_msg # None /\ Get(v.error_msg) # <<>>
    THEN Some(<<"The user's input was invalid. Error: ">> \o Get(v.error_msg))
    ELSE None

\* lines 388-417: the turn once the validator has answered v
validated_turn(logged, call, user_message, env, v) ==
    CHOOSE result \in
        {answer_turn(logged, call, user_message, env, v, turn_guidance(v), outcome)
            : outcome \in {turn_outcome(logged, v)}} : TRUE

\* lines 373-380: the user message added to the log
log_user_message(conversation, user_message) ==
    [conversation EXCEPT !.messages = Append(@, Message("user", user_message))]
\* the record of a call, as it stands when the call starts
new_call(conversation, user_message, env) ==
    [state_before |-> conversation.current_state,
     user_message |-> user_message, env |-> env,
     frustrated |-> check_frustration(user_message),
     is_valid |-> FALSE, value |-> None, error_msg |-> None,
     raised |-> FALSE, generate |-> None, response |-> None]
\* lines 385-387, 428-437: the reply of a frustrated turn
frustrated_turn(logged, call, env) ==
    [conversation |-> Reply(logged, frustrated_response(get_quote(env))),
     call |-> [call EXCEPT !.response = Some(frustrated_response(get_quote(env)))]]

process_message(conversation, user_message, env) ==
    LET logged == log_user_message(conversation, user_message)
        call == new_call(conversation, user_message, env)
    IN IF check_frustration(user_message)
       THEN frustrated_turn(logged, call, env)
       ELSE CHOOSE result \in
           {validated_turn(logged, call, user_message, env, v)
               : v \in {validate_and_extract(logged.current_state, user_message, logged,
                                             env.lookup)}} : TRUE

----------------------------------------------------------------------------
(* What the user types and what the collaborators answer *)

ExampleVin == <<"1","H","G","C","M","8","2","6","3","3","A","0","0","4","3","5","2">>

Inputs ==
    {<<>>, <<" ","\r","\n">>, <<"x">>, <<"9","0","2","1","0">>, <<"z","i","p"," ","1","2","3">>, <<"A","n","n"," ","L","e","e">>, <<"A",".","B","@","E","x","a","m","p","l","e",".","C","O","M">>,
     ExampleVin, <<"m","y"," ","v","i","n"," ","i","s"," ","1","h","g","c","m","8","2","6","3","3","a","0","0","4","3","5","2">>, <<"v","i","n">>, <<"m","a","n","u","a","l">>, <<"2","0","2","0">>, <<"2","0","2","7">>,
     <<"t","o","y","o","t","a">>, <<"k","e","n","w","o","r","t","h">>, <<"s","u","v">>, <<"c","o","m","m","u","t","i","n","g">>, <<"c","o","m","m","e","r","c","i","a","l">>, <<"f","a","r","m">>, <<"b","u","s","i","n","e","s","s">>,
     <<"y","e","s">>, <<"n","o">>, <<"5">>, <<"1","2">>, <<"1","2",",","0","0","0">>, <<"0">>, <<"f","o","r","e","i","g","n">>, <<"p","e","r","s","o","n","a","l">>, <<"v","a","l","i","d">>,
     <<"s","u","s","p","e","n","d","e","d">>, <<"h","e","l","p"," ","m","e">>, <<"y","e","s",","," ","t","h","i","s"," ","i","s"," ","u","s","e","l","e","s","s">>}

Row(error_code, make, model, year, body_class, error_text) ==
    [ErrorCode |-> error_code, Make |-> make, Model |-> model, ModelYear |-> year,
     BodyClass |-> body_class, ErrorText |-> error_text]
ApiTimeout == [kind |-> "timeout", results |-> <<>>]
ApiError == [kind |-> "error", results |-> <<>>]
ApiRows(rows) == [kind |-> "ok", results |-> rows]

RowFull == Row(Some(<<"0">>), Some(<<"H","O","N","D","A">>), Some(<<"A","c","c","o","r","d">>), Some(<<"2","0","0","3">>),
               Some(<<"S","e","d","a","n","/","S","a","l","o","o","n">>), Some(<<"0"," ","-"," ","V","I","N"," ","d","e","c","o","d","e","d"," ","c","l","e","a","n">>))
RowPartial == Row(Some(<<"6">>), Some(<<"F","O","R","D">>), None, Some(<<>>), None, Some(<<"6"," ","-"," ","I","n","c","o","m","p","l","e","t","e"," ","V","I","N">>))
RowBadYear == Row(Some(<<"0">>), Some(<<"H","O","N","D","A">>), Some(<<"A","c","c","o","r","d">>), Some(<<"n","/","a">>), Some(<<"C","o","u","p","e">>), None)
RowBlankYear == Row(Some(<<"1">>), Some(<<"H","O","N","D","A">>), None, Some(<<" ">>), None, None)
RowFutureYear == Row(Some(<<"0">>), Some(<<"T","E","S","L","A">>), Some(<<"M","o","d","e","l"," ","Y">>), Some(<<"2","0","2","7">>), Some(<<"S","U","V">>), None)
RowInvalid == Row(Some(<<"8">>), Some(<<>>), None, None, None, Some(<<"8"," ","-"," ","N","o"," ","d","e","t","a","i","l","e","d"," ","d","a","t","a">>))
RowNoMake == Row(Some(<<"0">>), Some(<<" ">>), None, Some(<<"2","0","0","3">>), None, None)
RowTrailer == Row(Some(<<"0">>), Some(<<"S","H","E","R","M","A","N"," ","+"," ","R","E","I","L","L","Y">>), None, None, None, None)

DecodeAnswers ==
    {ApiTimeout, ApiError, ApiRows(<<>>), ApiRows(<<RowFull>>), ApiRows(<<RowPartial>>),
     ApiRows(<<RowBadYear>>), ApiRows(<<RowBlankYear>>), ApiRows(<<RowFutureYear>>),
     ApiRows(<<RowInvalid>>), ApiRows(<<RowNoMake>>), ApiRows(<<RowTrailer>>)}

Makes(kind, makes) == [kind |-> kind, makes |-> makes]
CarMakes == {<<"T","O","Y","O","T","A">>, <<"H","O","N","D","A">>}
AllMakes == CarMakes \cup {<<"K","E","N","W","O","R","T","H">>}
MakesKnown == [cars |-> Makes("ok", CarMakes), all |-> Makes("ok", AllMakes)]
MakesAnswers ==
    {MakesKnown,
     [cars |-> Makes("ok", {}), all |-> Makes("ok", {})],
     [cars |-> Makes("timeout", {}), all |-> Makes("ok", AllMakes)],
     [cars |-> Makes("ok", CarMakes), all |-> Makes("error", {})]}

Completions == {None, Some(<<"(generated reply)">>)}
Quote == <<"(quote)">>

Env(decode, makes, completion, rollback) ==
    [lookup |-> [decode |-> decode, makes |-> makes], completion |-> completion,
     quote |-> Quote, rollback |-> rollback]
\* every collaborator answers, and answers well
Env0 == Env(ApiRows(<<RowFull>>), MakesKnown, Some(<<"(generated reply)">>), FALSE)

\* the collaborators' answers that a call with this message can see: an API
\* that the call does not reach has one (unused) answer
Environments(conversation, message) ==
    LET state == conversation.current_state
        validates == ~check_frustration(message)
        decodes == /\ validates
                   /\ state \in {VEHICLE_CHOICE, VEHICLE_VIN}
                   /\ SearchVin(Strip(message)) # None
        checks_make == validates /\ state = VEHICLE_MAKE /\ Len(Strip(message)) >= 2
    IN {Env(d, m, g, r) :
           d \in (IF decodes THEN DecodeAnswers ELSE {Env0.lookup.decode}),
           m \in (IF checks_make THEN MakesAnswers ELSE {MakesKnown}),
           g \in (IF validates THEN Completions ELSE {Env0.completion}),
           r \in (IF decodes THEN BOOLEAN ELSE {FALSE})}

----------------------------------------------------------------------------
(* The conversations.  A run starts from a conversation that some sequence  *)
(* of earlier calls has produced: the calls of a prefix of one of the       *)
(* scripts below, replayed by process_message from the new conversation.    *)

Say(message) == [message |-> message, env |-> Env0]
SayTo(message, env) == [message |-> message, env |-> env]

\* manual entry, commuting; a second vehicle by an inline VIN; personal, valid
ScriptManual ==
    <<Say(<<"9","0","2","1","0">>), Say(<<"A","n","n"," ","L","e","e">>), Say(<<"A",".","B","@","E","x","a","m","p","l","e",".","C","O","M">>), Say(<<"m","a","n","u","a","l">>),
      Say(<<"2","0","2","0">>), Say(<<"t","o","y","o","t","a">>), Say(<<"s","u","v">>), Say(<<"c","o","m","m","u","t","i","n","g">>), Say(<<"y","e","s">>),
      Say(<<"5">>), Say(<<"1","2">>), Say(<<"y","e","s">>), Say(ExampleVin), Say(<<"b","u","s","i","n","e","s","s">>),
      Say(<<"n","o">>), Say(<<"1","2",",","0","0","0">>), Say(<<"n","o">>), Say(<<"p","e","r","s","o","n","a","l">>), Say(<<"v","a","l","i","d">>)>>
\* the VIN state with a decode that has no year, farming; foreign license
ScriptVin ==
    <<Say(<<"9","0","2","1","0">>), Say(<<"A","n","n"," ","L","e","e">>), Say(<<"A",".","B","@","E","x","a","m","p","l","e",".","C","O","M">>), Say(<<"v","i","n">>),
      SayTo(ExampleVin, Env(ApiRows(<<RowPartial>>), MakesKnown, Env0.completion, FALSE)),
      Say(<<"f","a","r","m">>), Say(<<"n","o">>), Say(<<"1","2",",","0","0","0">>), Say(<<"n","o">>), Say(<<"f","o","r","e","i","g","n">>)>>
\* failing replies, a frustrated and a rejected turn, a lookup that times out,
\* an unverified make; commercial use, commercial license, suspended
ScriptRough ==
    <<SayTo(<<"9","0","2","1","0">>, Env(Env0.lookup.decode, MakesKnown, None, FALSE)),
      Say(<<"h","e","l","p"," ","m","e">>), Say(<<"x">>), Say(<<"A","n","n"," ","L","e","e">>), Say(<<"A",".","B","@","E","x","a","m","p","l","e",".","C","O","M">>), Say(<<"5">>),
      SayTo(ExampleVin, Env(ApiTimeout, MakesKnown, None, FALSE)),
      Say(<<"m","a","n","u","a","l">>), Say(<<"2","0","2","0">>),
      SayTo(<<"k","e","n","w","o","r","t","h">>, Env(Env0.lookup.decode,
                             [cars |-> Makes("timeout", {}), all |-> Makes("ok", {})],
                             Env0.completion, FALSE)),
      Say(<<"s","u","v">>), Say(<<"c","o","m","m","e","r","c","i","a","l">>), Say(<<"y","e","s">>), Say(<<"1","2",",","0","0","0">>), Say(<<"n","o">>),
      Say(<<"c","o","m","m","e","r","c","i","a","l">>), Say(<<"s","u","s","p","e","n","d","e","d">>), Say(<<"y","e","s">>)>>
Scripts == {ScriptManual, ScriptVin, ScriptRough}

\* one scripted call of process_message, recorded
Turn(run, step) ==
    LET r == process_message(run.conversation, step.message, step.env)
    IN [conversation |-> r.conversation, calls |-> Append(run.calls, r.call)]

RECURSIVE ReplayFrom(_, _)
ReplayFrom(run, script) ==
    IF script = <<>> THEN run
    ELSE CHOOSE end \in {ReplayFrom(next, Tail(script)) : next \in {Turn(run, Head(script))}} : TRUE

\* the conversation a script leads to, from get_welcome_message on
Replay(script) == ReplayFrom([conversation |-> NewConversation, calls |-> <<>>], script)

Checkpoints == UNION {{SubSeq(s, 1, n) : n \in 0..Len(s)} : s \in Scripts}

ConvIds == {"a", "b"}

VARIABLES
    db,             \* the tables of Conversation, Vehicle and Message rows
    calls,          \* per conversation, the calls of process_message so far
    turns,          \* the calls started in this run
    inflight        \* per conversation, the call that has started and not ended
vars == <<db, calls, turns, inflight>>

\* The persistence medium is one set of tables for all conversations.  A
\* Vehicle or Message row belongs to the conversation whose id it was created
\* with, and a conversation's vehicles and messages are the rows with its id,
\* in the order they were added.

ConversationColumns ==
    {"current_state", "zip_code", "full_name", "email", "license_type", "license_status"}

\* (mutant) every row created with the id of conversation "a"
TableRowOfFirst(conversation_id, columns) ==
    [conversation_id |-> "a", columns |-> columns]

\* Vehicle(conversation_id=conversation.id), Message(conversation_id=
\* conversation.id, role=..., content=...): a row of a table
TableRow(conversation_id, columns) ==
    [conversation_id |-> conversation_id, columns |-> columns]

\* conversation.vehicles, conversation.messages: the rows of the table that
\* carry the conversation's id
RECURSIVE RowsOf(_, _)
RowsOf(table, conversation_id) ==
    IF table = <<>> THEN <<>>
    ELSE IF Head(table).conversation_id = conversation_id
    THEN <<Head(table).columns>> \o RowsOf(Tail(table), conversation_id)
    ELSE RowsOf(Tail(table), conversation_id)

\* the Conversation with the given id as the engine is handed it
Loaded(tables, conversation_id) ==
    [current_state |-> tables.conversation[conversation_id].current_state,
     zip_code |-> tables.conversation[conversation_id].zip_code,
     full_name |-> tables.conversation[conversation_id].full_name,
     email |-> tables.conversation[conversation_id].email,
     license_type |-> tables.conversation[conversation_id].license_type,
     license_status |-> tables.conversation[conversation_id].license_status,
     vehicles |-> RowsOf(tables.vehicle, conversation_id),
     messages |-> RowsOf(tables.message, conversation_id)]

\* db.add and the flush of db.commit() on one table: the rows of the
\* conversation take the values the objects have, where they stand; the
\* objects added since are inserted at the end
RECURSIVE Flushed(_, _, _)
Flushed(table, conversation_id, objects) ==
    IF table = <<>> THEN [k \in 1..Len(objects) |-> TableRow(conversation_id, objects[k])]
    ELSE IF Head(table).conversation_id # conversation_id
    THEN <<Head(table)>> \o Flushed(Tail(table), conversation_id, objects)
    ELSE IF objects = <<>> THEN Flushed(Tail(table), conversation_id, objects)
    ELSE <<TableRow(conversation_id, Head(objects))>>
             \o Flushed(Tail(table), conversation_id, Tail(objects))

\* the tables once the call has written the conversation it works on
Stored(tables, conversation_id, conversation) ==
    [conversation |-> [tables.conversation EXCEPT ![conversation_id] =
                          [k \in ConversationColumns |-> conversation[k]]],
     vehicle |-> Flushed(tables.vehicle, conversation_id, conversation.vehicles),
     message |-> Flushed(tables.message, conversation_id, conversation.messages)]

\* the tables holding the given conversations, those of "a" written first
TablesOf(held) ==
    Stored(Stored([conversation |-> [c \in ConvIds |->
                                        [k \in ConversationColumns |-> held[c][k]]],
                   vehicle |-> <<>>, message |-> <<>>],
                  "a", held["a"]),
           "b", held["b"])

\* the conversations as the tables hold them
conversations == [c \in ConvIds |-> Loaded(db, c)]

\* the number of calls a run starts is bounded in the model; the code has no bound
MaxTurns == 1

Init ==
    \E script \in Checkpoints : \E run \in {Replay(script)} :
        /\ db = TablesOf([c \in ConvIds |->
                             IF c = "a" THEN run.conversation ELSE NewConversation])
        /\ calls = [c \in ConvIds |-> IF c = "a" THEN run.calls ELSE <<>>]
        /\ turns = 0
        /\ inflight = [c \in ConvIds |-> None]

\* process_message is a coroutine: it gives way to other calls where it awaits
\* the network.  After the user message is logged it awaits the quote (line
\* 386) or, when the validator makes one, the lookup (line 392); after the save
\* and the transition it awaits the reply generator (line 420).
\* check_frustration and _save_value are awaited too but never give way.

\* lines 70-77, 88-94, 108-114: the validator asks the vehicle API, and the
\* call gives way until it answers
awaits_lookup(state, raw_input) ==
    \/ state \in {VEHICLE_CHOICE, VEHICLE_VIN} /\ SearchVin(Strip(raw_input)) # None
    \/ state = VEHICLE_MAKE /\ Len(Strip(raw_input)) >= 2

\* a call that has given way: the conversation as the call found it, the
\* record of the call, what it waits for ("validate": the lookup, "reply": the
\* quote or the reply generator) and the validator's answer once there is one
Suspended(start, call, stage, v) == [start |-> start, call |-> call, stage |-> stage, v |-> v]

\* lines 389-417: validation, save and transition on the conversation the
\* tables hold; then the call awaits the reply generator, unless the save
\* raised and the call has ended
Settle(c, tables, job) ==
    \E logged \in {Loaded(tables, c)} :
    \E v \in {validate_and_extract(logged.current_state, job.call.user_message,
                                    logged, job.call.env.lookup)} :
    \E outcome \in {turn_outcome(logged, v)} :
        IF outcome.raised
        THEN \E r \in {answer_turn(logged, job.call, job.call.user_message, job.call.env,
                                    v, turn_guidance(v), outcome)} :
                /\ db' = Stored(tables, c, r.conversation)
                /\ calls' = [calls EXCEPT ![c] = Append(@, r.call)]
                /\ inflight' = [inflight EXCEPT ![c] = None]
        ELSE /\ db' = Stored(tables, c, outcome.memory)
             /\ inflight' = [inflight EXCEPT ![c] =
                               Some(Suspended(job.start,
                                              [job.call EXCEPT !.is_valid = v.is_valid,
                                                               !.value = v.value,
                                                               !.error_msg = v.error_msg],
                                              "reply", v))]
             /\ UNCHANGED calls

\* the call started by Begin, as far as its first await of the network
Start(c, tables, job) ==
    IF job.call.frustrated
       \/ awaits_lookup(Loaded(tables, c).current_state, job.call.user_message)
    THEN /\ db' = tables
         /\ inflight' = [inflight EXCEPT ![c] = Some(job)]
         /\ UNCHANGED calls
    ELSE Settle(c, tables, job)

\* lines 373-392: the call starts and logs the user message.  It gives way at
\* the quote when the user is frustrated and at the lookup when the validator
\* makes one; otherwise it runs on to the await of the reply generator
Begin(c, message, env) ==
    /\ inflight[c] = None
    /\ Start(c, Stored(db, c, log_user_message(Loaded(db, c), message)),
             Suspended(Loaded(db, c), new_call(Loaded(db, c), message, env),
                       IF check_frustration(message) THEN "reply" ELSE "validate",
                       Reject(None)))
    /\ turns' = turns + 1

\* lines 392-417: the lookup has answered
Advance(c) ==
    /\ inflight[c] # None
    /\ Get(inflight[c]).stage = "validate"
    /\ Settle(c, db, Get(inflight[c]))
    /\ UNCHANGED turns

\* lines 385-387, 419-437: the quote or the reply generator has answered; the
\* reply is logged and the call returns
Finish(c) ==
    /\ inflight[c] # None
    /\ Get(inflight[c]).stage = "reply"
    /\ LET call == Get(inflight[c]).call
           v == Get(inflight[c]).v
           conversation == Loaded(db, c)
       IN \E r \in {IF call.frustrated
                    THEN frustrated_turn(conversation, call, call.env)
                    ELSE answer_turn(conversation, call, call.user_message, call.env,
                                     v, turn_guidance(v), Saved(conversation))} :
             /\ db' = Stored(db, c, r.conversation)
             /\ calls' = [calls EXCEPT ![c] = Append(@, r.call)]
    /\ inflight' = [inflight EXCEPT ![c] = None]
    /\ UNCHANGED turns

Next ==
    \/ /\ turns < MaxTurns
       /\ \E message \in Inputs : \E env \in Environments(conversations["a"], message) :
             Begin("a", message, env)
    \/ Advance("a")
    \/ Finish("a")

Spec == Init /\ [][Next]_vars

----------------------------------------------------------------------------
(* Properties *)

Applicant(conversation) ==
    <<conversation.zip_code, conversation.full_name, conversation.email,
      conversation.license_type, conversation.license_status>>
State(c) == conversations[c].current_state
Vehicles(c) == conversations[c].vehicles
IsPrefix(s, t) == Len(s) <= Len(t) /\ SubSeq(t, 1, Len(s)) = s
Last(s) == s[Len(s)]

\* this step ends a call of process_message on conversation c, and `LastCall(c)'`
\* is the record of it
Called(c) == Len(calls'[c]) = Len(calls[c]) + 1
LastCall(c) == Last(calls[c])
\* the run has made a call on c
Acted(c) == turns > 0 /\ calls[c] # <<>> /\ inflight[c] = None
\* the conversation as the call in progress found it; as it is, when no call
\* is in progress.  In a step that ends a call this is the conversation before
\* the call
Was(c) == IF inflight[c] # None THEN Get(inflight[c]).start ELSE conversations[c]
StateWas(c) == Was(c).current_state
\* the record of the call in progress, as far as the call has come; when no
\* call is in progress, of the last call that ended
Doing(c) == IF inflight[c] # None THEN Get(inflight[c]).call ELSE LastCall(c)
\* this step is part of a call of process_message on conversation c
InCall(c) == inflight[c] # None \/ inflight'[c] # None \/ Called(c)
VehiclesWere(c) == Was(c).vehicles

\* what a call keeps when it changes neither the applicant nor the vehicles
RecordUnchanged(c) ==
    /\ Applicant(conversations'[c]) = Applicant(Was(c))
    /\ conversations'[c].vehicles = Was(c).vehicles

\* C1: once a conversation is complete, every later call of process_message
\* leaves its state complete and changes no applicant field, no vehicle
\* sub-record and not the number of vehicles.
C1_TerminalStability ==
    [][\A c \in ConvIds :
          StateWas(c) = COMPLETE =>
              /\ conversations'[c].current_state = COMPLETE
              /\ RecordUnchanged(c)]_vars

\* a call made on a complete conversation whose input the validator accepted,
\* and one whose reply generator failed
C1_Witness ==
    \E c \in ConvIds :
        /\ Acted(c)
        /\ LastCall(c).state_before = COMPLETE
        /\ LastCall(c).is_valid
        /\ LastCall(c).response = Some(fallback_responses(COMPLETE))

\* C2: a call whose input the validator rejects leaves the state, the
\* applicant fields and the vehicles as they were; the log only grows.
C2_RejectedTurnChangesNothing ==
    [][\A c \in ConvIds :
          (Called(c) /\ ~LastCall(c)'.frustrated /\ ~LastCall(c)'.is_valid) =>
              /\ conversations'[c].current_state = StateWas(c)
              /\ RecordUnchanged(c)
              /\ IsPrefix(Was(c).messages, conversations'[c].messages)
              /\ Len(conversations'[c].messages) > Len(Was(c).messages)]_vars

\* a rejected call in a state that has vehicles, with the lookup's error text
C2_Witness ==
    \E c \in ConvIds :
        /\ Acted(c)
        /\ ~LastCall(c).frustrated /\ ~LastCall(c).is_valid
        /\ LastCall(c).state_before = VEHICLE_VIN
        /\ LastCall(c).error_msg # None
        /\ Vehicles(c) # <<>>

\* an accepted, unfrustrated call made in state s
AcceptedAt(call, s) ==
    call.state_before = s /\ ~call.frustrated /\ call.is_valid /\ call.value # None
\* an accepted call in vehicle_choice whose input held a VIN the lookup decoded as valid
InlineVinAccepted(call) ==
    AcceptedAt(call, VEHICLE_CHOICE) /\ HasVinData(Get(call.value))
\* the state changed to s in this step
Enters(c, s) == StateWas(c) # s /\ conversations'[c].current_state = s

\* C3: a turn in vehicle_choice whose input contains a 17-character VIN that
\* the lookup decodes as valid creates one vehicle whose VIN, year, make and
\* body type come from the decode result and moves the state to vehicle_use;
\* vehicle_vin, vehicle_year, vehicle_make and vehicle_body are entered only
\* along the manual path, never by or after such a turn.
C3_InlineVinShortcut ==
    [][\A c \in ConvIds :
          /\ (Called(c) /\ InlineVinAccepted(LastCall(c)')) =>
                /\ conversations'[c].current_state = VEHICLE_USE
                /\ Len(conversations'[c].vehicles) = Len(VehiclesWere(c)) + 1
                /\ IsPrefix(VehiclesWere(c), conversations'[c].vehicles)
                /\ LET vehicle == Last(conversations'[c].vehicles)
                       data == Get(LastCall(c)'.value).val.vin_data
                   IN /\ vehicle.vin = data.vin
                      /\ vehicle.year = YearOf(data)
                      /\ vehicle.make = data.make
                      /\ vehicle.body_type = data.body_class
          /\ (Enters(c, VEHICLE_VIN) \/ Enters(c, VEHICLE_YEAR)) =>
                StateWas(c) = VEHICLE_CHOICE /\ ~InlineVinAccepted(Doing(c)')
          /\ Enters(c, VEHICLE_MAKE) => StateWas(c) = VEHICLE_YEAR
          /\ Enters(c, VEHICLE_BODY) => StateWas(c) = VEHICLE_MAKE]_vars

\* the open vehicle of a conversation: the most recently appended one
OpenVehicle(c) == Last(Vehicles(c))
Commuting == <<"c","o","m","m","u","t","i","n","g">>
NonCommutingUses == {<<"c","o","m","m","e","r","c","i","a","l">>, <<"f","a","r","m","i","n","g">>, <<"b","u","s","i","n","e","s","s">>}
UseOf(vehicle) == vehicle.vehicle_use

\* C4: after blind_spot_warning a vehicle whose accepted use is commuting goes
\* through commute_days, then commute_miles, then add_another_vehicle and never
\* annual_mileage; a vehicle whose use is commercial, farming or business goes
\* through annual_mileage, then add_another_vehicle, and never commute_days or
\* commute_miles.
C4_UseBasedBranching ==
    /\ [](\A c \in ConvIds :
             /\ State(c) \in {BLIND_SPOT_WARNING, COMMUTE_DAYS, COMMUTE_MILES, ANNUAL_MILEAGE} =>
                   /\ Vehicles(c) # <<>>
                   /\ UseOf(OpenVehicle(c)) # None
                   /\ Get(UseOf(OpenVehicle(c))) \in {Commuting} \cup NonCommutingUses
             /\ State(c) \in {COMMUTE_DAYS, COMMUTE_MILES} =>
                   UseOf(OpenVehicle(c)) = Some(Commuting)
             /\ State(c) = ANNUAL_MILEAGE =>
                   Get(UseOf(OpenVehicle(c))) \in NonCommutingUses)
    /\ [][\A c \in ConvIds :
             /\ (Called(c) /\ AcceptedAt(LastCall(c)', BLIND_SPOT_WARNING)) =>
                   conversations'[c].current_state =
                       IF UseOf(Last(VehiclesWere(c))) = Some(Commuting)
                       THEN COMMUTE_DAYS ELSE ANNUAL_MILEAGE
             /\ (Called(c) /\ AcceptedAt(LastCall(c)', COMMUTE_DAYS)) =>
                   conversations'[c].current_state = COMMUTE_MILES
             /\ (Called(c) /\ AcceptedAt(LastCall(c)', COMMUTE_MILES)) =>
                   conversations'[c].current_state = ADD_ANOTHER_VEHICLE
             /\ (Called(c) /\ AcceptedAt(LastCall(c)', ANNUAL_MILEAGE)) =>
                   conversations'[c].current_state = ADD_ANOTHER_VEHICLE
             /\ StateWas(c) \in {BLIND_SPOT_WARNING, COMMUTE_DAYS, COMMUTE_MILES, ANNUAL_MILEAGE} =>
                   /\ Len(conversations'[c].vehicles) = Len(VehiclesWere(c))
                   /\ UseOf(Last(conversations'[c].vehicles)) = UseOf(Last(VehiclesWere(c)))
             /\ Enters(c, COMMUTE_DAYS) => StateWas(c) = BLIND_SPOT_WARNING
             /\ Enters(c, ANNUAL_MILEAGE) => StateWas(c) = BLIND_SPOT_WARNING
             /\ Enters(c, COMMUTE_MILES) => StateWas(c) = COMMUTE_DAYS
             /\ Enters(c, ADD_ANOTHER_VEHICLE) => StateWas(c) \in {COMMUTE_MILES, ANNUAL_MILEAGE}]_vars
\* a business vehicle, added after a commuting one, has just left
\* blind_spot_warning for annual_mileage
C4_Witness ==
    \E c \in ConvIds :
        /\ Acted(c) /\ AcceptedAt(LastCall(c), BLIND_SPOT_WARNING)
        /\ State(c) = ANNUAL_MILEAGE
        /\ UseOf(OpenVehicle(c)) = Some(<<"b","u","s","i","n","e","s","s">>)
        /\ Len(Vehicles(c)) > 1 /\ UseOf(Vehicles(c)[1]) = Some(Commuting)

\* C5: in every reachable state, for every vehicle: days_per_week or
\* one_way_miles is populated only if the vehicle's use is commuting,
\* annual_mileage only if its use is populated and not commuting, and never
\* annual_mileage together with days_per_week or one_way_miles.
C5_MileageFieldsFollowUse ==
    \A c \in ConvIds : \A i \in 1..Len(Vehicles(c)) :
        LET vehicle == Vehicles(c)[i]
            commute == vehicle.days_per_week # None \/ vehicle.one_way_miles # None
            annual == vehicle.annual_mileage # None
        IN /\ commute => UseOf(vehicle) = Some(Commuting)
           /\ annual => UseOf(vehicle) # None /\ UseOf(vehicle) # Some(Commuting)
           /\ ~(commute /\ annual)
\* the annual mileage of a business vehicle has just been saved, next to a
\* commuting vehicle with its commute days and miles
C5_Witness ==
    \E c \in ConvIds :
        /\ Acted(c) /\ AcceptedAt(LastCall(c), ANNUAL_MILEAGE)
        /\ Len(Vehicles(c)) = 2
        /\ OpenVehicle(c).annual_mileage # None /\ UseOf(OpenVehicle(c)) = Some(<<"b","u","s","i","n","e","s","s">>)
        /\ Vehicles(c)[1].days_per_week # None /\ Vehicles(c)[1].one_way_miles # None
        /\ UseOf(Vehicles(c)[1]) = Some(Commuting)

Foreign == <<"f","o","r","e","i","g","n">>

\* C6: accepting "foreign" at license_type sets license_type to foreign and
\* moves the state to complete; license_status is not visited and the license
\* status stays unpopulated from then on. Accepting personal or commercial
\* sets license_type to it and moves to license_status.
C6_ForeignLicenseShortcut ==
    /\ [](\A c \in ConvIds :
             /\ conversations[c].license_type = Some(Foreign) =>
                   State(c) = COMPLETE /\ conversations[c].license_status = None
             /\ State(c) = LICENSE_STATUS =>
                   conversations[c].license_type \in {Some(<<"p","e","r","s","o","n","a","l">>), Some(<<"c","o","m","m","e","r","c","i","a","l">>)})
    /\ [][\A c \in ConvIds :
             /\ (Called(c) /\ AcceptedAt(LastCall(c)', LICENSE_TYPE)) =>
                   /\ Get(LastCall(c)'.value).val \in {Foreign, <<"p","e","r","s","o","n","a","l">>, <<"c","o","m","m","e","r","c","i","a","l">>}
                   /\ conversations'[c].license_type = Some(Get(LastCall(c)'.value).val)
                   /\ conversations'[c].license_status = None
                   /\ conversations'[c].current_state =
                         IF Get(LastCall(c)'.value).val = Foreign
                         THEN COMPLETE ELSE LICENSE_STATUS
             /\ Enters(c, LICENSE_STATUS) =>
                   StateWas(c) = LICENSE_TYPE /\ conversations'[c].license_type # Some(Foreign)
             /\ Was(c).license_type = Some(Foreign) =>
                   /\ conversations'[c].license_type = Some(Foreign)
                   /\ conversations'[c].license_status = None
                   /\ conversations'[c].current_state = COMPLETE]_vars
\* "foreign" has just been accepted at license_type
C6_Witness ==
    \E c \in ConvIds :
        /\ Acted(c) /\ AcceptedAt(LastCall(c), LICENSE_TYPE)
        /\ LastCall(c).value = Some(StrValue(Foreign))
        /\ conversations[c].license_type = Some(Foreign)
        /\ State(c) = COMPLETE

\* the loop iterations conversation c has begun: the first on entering
\* vehicle_choice from email, one more with every accepted "yes" at
\* add_another_vehicle
LoopIterations(c) ==
    IF State(c) \in {ZIP_CODE, FULL_NAME, EMAIL} THEN 0
    ELSE 1 + Cardinality({i \in 1..Len(calls[c]) :
                             /\ AcceptedAt(calls[c][i], ADD_ANOTHER_VEHICLE)
                             /\ Truthy(Get(calls[c][i].value))})
\* the states a conversation is in once the iteration's vehicle is entered
AfterVehicleStates == {ADD_ANOTHER_VEHICLE, LICENSE_TYPE, LICENSE_STATUS, COMPLETE}

\* C7: accepting "yes" at add_another_vehicle appends a vehicle and returns the
\* state to vehicle_choice; accepting "no" moves the state to license_type and
\* leaves the vehicle count; and the count grows by exactly one per loop
\* iteration: a conversation never has more vehicles than iterations begun,
\* and has as many once the vehicle of the iteration is entered.
C7_AddAnotherLoop ==
    /\ [](\A c \in ConvIds :
             /\ Len(Vehicles(c)) <= LoopIterations(c)
             /\ State(c) \in AfterVehicleStates => Len(Vehicles(c)) = LoopIterations(c))
    /\ [][\A c \in ConvIds :
             (Called(c) /\ AcceptedAt(LastCall(c)', ADD_ANOTHER_VEHICLE)) =>
                 IF Truthy(Get(LastCall(c)'.value))
                 THEN /\ conversations'[c].current_state = VEHICLE_CHOICE
                      /\ Len(conversations'[c].vehicles) = Len(VehiclesWere(c)) + 1
                 ELSE /\ conversations'[c].current_state = LICENSE_TYPE
                      /\ Len(conversations'[c].vehicles) = Len(VehiclesWere(c))]_vars

\* C8: the vehicle sequence is append-only; a visit to vehicle_choice creates
\* exactly one vehicle (none while the state stays vehicle_choice, one when it
\* leaves); no call made in another state, and no rejected or frustrated call,
\* changes the number of vehicles.
C8_VehiclesAppendOnly ==
    [][\A c \in ConvIds :
          /\ Len(conversations'[c].vehicles) >= Len(VehiclesWere(c))
          /\ \A i \in 1..(Len(VehiclesWere(c)) - 1) : conversations'[c].vehicles[i] = VehiclesWere(c)[i]
          /\ Called(c) =>
                /\ (StateWas(c) = VEHICLE_CHOICE /\ conversations'[c].current_state = VEHICLE_CHOICE) =>
                      Len(conversations'[c].vehicles) = Len(VehiclesWere(c))
                /\ (StateWas(c) = VEHICLE_CHOICE /\ conversations'[c].current_state # VEHICLE_CHOICE) =>
                      Len(conversations'[c].vehicles) = Len(VehiclesWere(c)) + 1
                /\ StateWas(c) # VEHICLE_CHOICE =>
                      Len(conversations'[c].vehicles) = Len(VehiclesWere(c))
                /\ (LastCall(c)'.frustrated \/ ~LastCall(c)'.is_valid) =>
                      Len(conversations'[c].vehicles) = Len(VehiclesWere(c))]_vars

VehicleFields ==
    {"vin", "year", "make", "body_type", "vehicle_use", "blind_spot_warning",
     "days_per_week", "one_way_miles", "annual_mileage"}
DecodeFields == {"vin", "year", "make", "body_type"}
\* the states whose accepted value is one field of a vehicle, and that field
FieldStates ==
    {VEHICLE_YEAR, VEHICLE_MAKE, VEHICLE_BODY, VEHICLE_USE, BLIND_SPOT_WARNING,
     COMMUTE_DAYS, COMMUTE_MILES, ANNUAL_MILEAGE}
FieldOf(s) ==
    CASE s = VEHICLE_YEAR -> "year"
      [] s = VEHICLE_MAKE -> "make"
      [] s = VEHICLE_BODY -> "body_type"
      [] s = VEHICLE_USE -> "vehicle_use"
      [] s = BLIND_SPOT_WARNING -> "blind_spot_warning"
      [] s = COMMUTE_DAYS -> "days_per_week"
      [] s = COMMUTE_MILES -> "one_way_miles"
      [] s = ANNUAL_MILEAGE -> "annual_mileage"
\* a vehicle holds the decode result `data`
HoldsDecode(vehicle, data) ==
    /\ vehicle.vin = data.vin
    /\ vehicle.year = YearOf(data)
    /\ vehicle.make = data.make
    /\ vehicle.body_type = data.body_class

\* C9: every per-vehicle mutation (decode data, year, make, body type, use,
\* blind-spot warning, commute days, commute miles, annual mileage) lands on
\* the most recently appended vehicle and leaves every earlier vehicle and
\* every applicant field as they were.
C9_MutationsTargetOpenVehicle ==
    [][\A c \in ConvIds : Called(c) =>
          LET call == LastCall(c)'
              before == VehiclesWere(c)
              after == conversations'[c].vehicles
          IN /\ \A s \in FieldStates : AcceptedAt(call, s) =>
                   /\ Applicant(conversations'[c]) = Applicant(Was(c))
                   /\ before # <<>> /\ Len(after) = Len(before)
                   /\ \A i \in 1..(Len(before) - 1) : after[i] = before[i]
                   /\ Last(after)[FieldOf(s)] = Some(Get(call.value).val)
                   /\ \A f \in VehicleFields \ {FieldOf(s)} : Last(after)[f] = Last(before)[f]
             /\ AcceptedAt(call, VEHICLE_VIN) =>
                   /\ Applicant(conversations'[c]) = Applicant(Was(c))
                   /\ before # <<>> /\ Len(after) = Len(before)
                   /\ \A i \in 1..(Len(before) - 1) : after[i] = before[i]
                   /\ ~call.raised => HoldsDecode(Last(after), Get(call.value).val)
                   /\ \A f \in VehicleFields \ DecodeFields : Last(after)[f] = Last(before)[f]
             /\ InlineVinAccepted(call) =>
                   /\ Applicant(conversations'[c]) = Applicant(Was(c))
                   /\ Len(after) = Len(before) + 1
                   /\ \A i \in 1..Len(before) : after[i] = before[i]
                   /\ ~call.raised => HoldsDecode(Last(after), Get(call.value).val.vin_data)
                   /\ \A f \in VehicleFields \ DecodeFields : Last(after)[f] = None]_vars
\* the use of a second vehicle has just been saved, next to a first vehicle
\* with another use
C9_Witness ==
    \E c \in ConvIds :
        /\ Acted(c) /\ AcceptedAt(LastCall(c), VEHICLE_USE)
        /\ Len(Vehicles(c)) = 2
        /\ UseOf(OpenVehicle(c)) = Some(Get(LastCall(c).value).val)
        /\ UseOf(Vehicles(c)[1]) = Some(Commuting)
        /\ UseOf(OpenVehicle(c)) # Some(Commuting)

\* C10: every call of process_message, whatever the state, the input and the
\* collaborators' answers, runs to completion and returns a reply text: no
\* call raises.
C10_EveryTurnReplies ==
    \A c \in ConvIds : \A i \in 1..Len(calls[c]) :
        /\ ~calls[c][i].raised
        /\ calls[c][i].response # None

\* a conversation without its last log entry
BeforeReply(conversation) ==
    [conversation EXCEPT !.messages = SubSeq(@, 1, Len(@) - 1)]

\* C11: when the reply generator fails on a turn that is not frustrated, the
\* reply returned and logged is the fallback sentence of the state the
\* conversation has after the turn (the next state when the input was accepted,
\* the same state when it was rejected), and the state and the record are those
\* the turn gives with a generator that answers.
C11_FallbackReply ==
    [][\A c \in ConvIds :
          (/\ Called(c) /\ ~LastCall(c)'.frustrated /\ ~LastCall(c)'.raised
           /\ LastCall(c)'.env.completion = None) =>
              LET call == LastCall(c)'
                  after == conversations'[c]
                  answered == process_message(Was(c), call.user_message,
                                  [call.env EXCEPT !.completion = Some(<<"(generated reply)">>)])
              IN /\ call.response = Some(fallback_responses(after.current_state))
                 /\ Last(after.messages) =
                       Message("assistant", fallback_responses(after.current_state))
                 /\ BeforeReply(after) = BeforeReply(answered.conversation)
                 /\ ~AcceptedAt(call, call.state_before) =>
                       after.current_state = StateWas(c) /\ RecordUnchanged(c)]_vars
\* the generator has just failed on an accepted turn that changed the state
C11_Witness ==
    \E c \in ConvIds :
        /\ Acted(c) /\ LastCall(c).env.completion = None
        /\ AcceptedAt(LastCall(c), LastCall(c).state_before)
        /\ State(c) # LastCall(c).state_before
        /\ LastCall(c).response = Some(fallback_responses(State(c)))
        /\ Vehicles(c) # <<>>

\* the text holds one of the frustration keywords, in any case
Flagged(message) == \E k \in frustration_keywords : Contains(Lower(message), k)

\* C12: a turn whose text the frustration detector flags skips validation,
\* mutation, transition and the reply generator: the state and the whole
\* record are unchanged, also when the state's validator would have accepted
\* the text, and the log grows by the user message and one assistant message
\* made of the empathetic template around the quote.
C12_FrustrationBranch ==
    [][\A c \in ConvIds :
          (Called(c) /\ Flagged(LastCall(c)'.user_message)) =>
              LET call == LastCall(c)'
              IN /\ call.frustrated
                 /\ conversations'[c].current_state = StateWas(c)
                 /\ RecordUnchanged(c)
                 /\ call.generate = None /\ ~call.raised
                 /\ call.response = Some(frustrated_response(call.env.quote))
                 /\ conversations'[c].messages =
                       Was(c).messages \o
                           <<Message("user", call.user_message),
                             Message("assistant", frustrated_response(call.env.quote))>>]_vars
\* a flagged text that the state's validator would have accepted
C12_Witness ==
    \E c \in ConvIds :
        /\ Acted(c) /\ LastCall(c).frustrated
        /\ State(c) = BLIND_SPOT_WARNING
        /\ validate_and_extract(State(c), LastCall(c).user_message, conversations[c],
                                LastCall(c).env.lookup).is_valid

\* the VIN lookup failed or timed out
DecodeFailed(api) == api.kind \in {"timeout", "error"}
\* one of the makes lookups that the check of `make` performs failed or timed out
MakesFailed(api, make) ==
    \/ api.cars.kind # "ok"
    \/ /\ Upper(make) \notin {Upper(m) : m \in api.cars.makes}
       /\ api.all.kind # "ok"

\* C13: a VIN decode that fails or times out, in vehicle_choice with an inline
\* VIN or in vehicle_vin, rejects the input and leaves state and record as
\* they were; a year/make check that fails or times out in vehicle_make accepts
\* an input of at least two characters, stores the title-cased make on the open
\* vehicle and moves the state to vehicle_body.
C13_LookupFailurePolicy ==
    [][\A c \in ConvIds : (Called(c) /\ ~LastCall(c)'.frustrated) =>
          LET call == LastCall(c)'
              text == Strip(call.user_message)
          IN /\ (/\ call.state_before \in {VEHICLE_CHOICE, VEHICLE_VIN}
                 /\ SearchVin(text) # None
                 /\ DecodeFailed(call.env.lookup.decode)) =>
                    /\ ~call.is_valid /\ call.value = None /\ ~call.raised
                    /\ call.error_msg # None /\ Get(call.error_msg) # <<>>
                    /\ conversations'[c].current_state = StateWas(c)
                    /\ RecordUnchanged(c)
             /\ (/\ call.state_before = VEHICLE_MAKE
                 /\ Len(text) >= 2
                 /\ MakesFailed(call.env.lookup.makes, text)) =>
                    /\ call.is_valid /\ call.value = Some(StrValue(Title(text)))
                    /\ Len(conversations'[c].vehicles) = Len(VehiclesWere(c))
                    /\ Last(conversations'[c].vehicles).make = Some(Title(text))
                    /\ conversations'[c].current_state = VEHICLE_BODY]_vars
\* a make that no list holds has just been accepted because the lookup timed out
C13_Witness ==
    \E c \in ConvIds :
        /\ Acted(c) /\ LastCall(c).state_before = VEHICLE_MAKE
        /\ LastCall(c).env.lookup.makes.cars.kind = "timeout"
        /\ State(c) = VEHICLE_BODY
        /\ OpenVehicle(c).make = Some(Title(Strip(LastCall(c).user_message)))
        /\ Upper(Get(OpenVehicle(c).make)) \notin {Upper(m) : m \in AllMakes}

\* an empty text, or one of white space only
WhitespaceOnly(message) == \A i \in 1..Len(message) : IsSpace(message[i])
\* the guidance the reply generator was given in a call
GuidanceOf(call) == Get(call.generate).additional_context

\* C14 as stated: in every state an empty or whitespace-only input is rejected,
\* state and record unchanged, with a non-empty guidance, except in
\* vehicle_choice, where it is rejected with no guidance.
C14_EmptyInputRejectedEverywhere ==
    [][\A c \in ConvIds :
          (Called(c) /\ WhitespaceOnly(LastCall(c)'.user_message)) =>
              LET call == LastCall(c)'
              IN /\ ~call.is_valid
                 /\ conversations'[c].current_state = StateWas(c)
                 /\ RecordUnchanged(c)
                 /\ IF call.state_before = VEHICLE_CHOICE
                    THEN call.error_msg = None
                    ELSE call.error_msg # None /\ Get(call.error_msg) # <<>>]_vars

\* C14: in every state but complete an empty or whitespace-only input is
\* rejected, state and record unchanged, with a non-empty guidance that reaches
\* the reply generator, except in vehicle_choice, where it is rejected with no
\* guidance; in complete it is accepted as the empty text, with no guidance,
\* and changes nothing.
C14_EmptyInputRejected ==
    [][\A c \in ConvIds :
          (Called(c) /\ WhitespaceOnly(LastCall(c)'.user_message)) =>
              LET call == LastCall(c)'
              IN /\ ~call.frustrated /\ ~call.raised
                 /\ conversations'[c].current_state = StateWas(c)
                 /\ RecordUnchanged(c)
                 /\ call.state_before # COMPLETE => ~call.is_valid /\ call.value = None
                 /\ call.state_before \notin {COMPLETE, VEHICLE_CHOICE} =>
                       /\ call.error_msg # None /\ Get(call.error_msg) # <<>>
                       /\ GuidanceOf(call) =
                             Some(<<"The user's input was invalid. Error: ">>
                                  \o Get(call.error_msg))
                 /\ call.state_before = VEHICLE_CHOICE =>
                       call.error_msg = None /\ GuidanceOf(call) = None
                 /\ call.state_before = COMPLETE =>
                       /\ call.is_valid /\ call.value = Some(StrValue(<<>>))
                       /\ call.error_msg = None /\ GuidanceOf(call) = None]_vars
\* a text of blanks has just been rejected, with guidance, for a vehicle's make
C14_Witness ==
    \E c \in ConvIds :
        /\ Acted(c) /\ LastCall(c).user_message # <<>>
        /\ WhitespaceOnly(LastCall(c).user_message)
        /\ LastCall(c).state_before = VEHICLE_MAKE
        /\ ~LastCall(c).is_valid
        /\ LastCall(c).error_msg = Some(<<"Please provide the vehicle make.">>)

\* C15: the license fields are written at most once in a conversation: a
\* license type or status that is set never changes, whatever turns follow;
\* the type is set only once the state is past license_type and the status
\* only once the conversation is complete, and no turn returns to either state.
C15_LicenseWrittenOnce ==
    /\ [](\A c \in ConvIds :
             /\ conversations[c].license_type # None => State(c) \in {LICENSE_STATUS, COMPLETE}
             /\ conversations[c].license_status # None => State(c) = COMPLETE
             /\ State(c) = COMPLETE => conversations[c].license_type # None)
    /\ [][\A c \in ConvIds :
             /\ Was(c).license_type # None =>
                   conversations'[c].license_type = Was(c).license_type
             /\ Was(c).license_status # None =>
                   conversations'[c].license_status = Was(c).license_status
             /\ conversations'[c].license_type # Was(c).license_type =>
                   InCall(c) /\ AcceptedAt(Doing(c)', LICENSE_TYPE)
             /\ conversations'[c].license_status # Was(c).license_status =>
                   InCall(c) /\ AcceptedAt(Doing(c)', LICENSE_STATUS)]_vars
\* with both fields written, a later turn naming another license type has
\* left them as they were
C15_Witness ==
    \E c \in ConvIds :
        /\ Acted(c) /\ LastCall(c).state_before = COMPLETE
        /\ LastCall(c).user_message = <<"f","o","r","e","i","g","n">>
        /\ conversations[c].license_type = Some(<<"p","e","r","s","o","n","a","l">>)
        /\ conversations[c].license_status = Some(<<"v","a","l","i","d">>)
        /\ Len(Vehicles(c)) = 2

\* C16: the log is append-only and every call of process_message appends
\* exactly the user message and then one assistant message holding the reply:
\* after the welcome message and n calls it has 1 + 2n entries, a user entry
\* before each assistant entry (and the user entry of the call in progress,
\* while there is one).
C16_LogGrowsByTwo ==
    /\ [](\A c \in ConvIds :
             LET log == conversations[c].messages
                 open == IF inflight[c] # None THEN 1 ELSE 0
             IN /\ Len(log) = 1 + 2 * Len(calls[c]) + open
                /\ \A i \in 1..Len(log) :
                      log[i].role = IF i % 2 = 1 THEN "assistant" ELSE "user")
    /\ [][\A c \in ConvIds :
             /\ IsPrefix(Was(c).messages, conversations'[c].messages)
             /\ Called(c) =>
                   /\ LastCall(c)'.response # None
                   /\ conversations'[c].messages =
                         Was(c).messages \o
                             <<Message("user", LastCall(c)'.user_message),
                               Message("assistant", Get(LastCall(c)'.response))>>]_vars

\* the edges of the specified flow graph
FlowEdges ==
    {<<ZIP_CODE, FULL_NAME>>, <<FULL_NAME, EMAIL>>, <<EMAIL, VEHICLE_CHOICE>>,
     <<VEHICLE_CHOICE, VEHICLE_VIN>>, <<VEHICLE_CHOICE, VEHICLE_YEAR>>,
     <<VEHICLE_CHOICE, VEHICLE_USE>>, <<VEHICLE_VIN, VEHICLE_USE>>,
     <<VEHICLE_YEAR, VEHICLE_MAKE>>, <<VEHICLE_MAKE, VEHICLE_BODY>>,
     <<VEHICLE_BODY, VEHICLE_USE>>, <<VEHICLE_USE, BLIND_SPOT_WARNING>>,
     <<BLIND_SPOT_WARNING, COMMUTE_DAYS>>, <<BLIND_SPOT_WARNING, ANNUAL_MILEAGE>>,
     <<COMMUTE_DAYS, COMMUTE_MILES>>, <<COMMUTE_MILES, ADD_ANOTHER_VEHICLE>>,
     <<ANNUAL_MILEAGE, ADD_ANOTHER_VEHICLE>>, <<ADD_ANOTHER_VEHICLE, VEHICLE_CHOICE>>,
     <<ADD_ANOTHER_VEHICLE, LICENSE_TYPE>>, <<LICENSE_TYPE, LICENSE_STATUS>>,
     <<LICENSE_TYPE, COMPLETE>>, <<LICENSE_STATUS, COMPLETE>>}

\* C17: every change of state made by a turn is an edge of the flow graph,
\* made by an accepted call in the edge's source state; the next state is
\* decided by the state, the accepted value and the record: where the graph
\* branches, by the choice (inline VIN, "vin", manual), by the open vehicle's
\* use, by the yes or no, and by the license type.
C17_TransitionsFollowGraph ==
    [][\A c \in ConvIds :
          /\ StateWas(c) \in States /\ conversations'[c].current_state \in States
          /\ conversations'[c].current_state # StateWas(c) =>
                /\ <<StateWas(c), conversations'[c].current_state>> \in FlowEdges
                /\ InCall(c) /\ AcceptedAt(Doing(c)', StateWas(c)) /\ ~Doing(c)'.raised
          /\ (Called(c) /\ AcceptedAt(LastCall(c)', StateWas(c)) /\ ~LastCall(c)'.raised
                /\ StateWas(c) # COMPLETE) =>
                LET value == Get(LastCall(c)'.value)
                    next == conversations'[c].current_state
                IN /\ <<StateWas(c), next>> \in FlowEdges
                   /\ StateWas(c) = VEHICLE_CHOICE =>
                         next = IF HasVinData(value) THEN VEHICLE_USE
                                ELSE IF value = StrValue(<<"v","i","n">>) THEN VEHICLE_VIN
                                ELSE VEHICLE_YEAR
                   /\ StateWas(c) = BLIND_SPOT_WARNING =>
                         next = IF UseOf(Last(VehiclesWere(c))) = Some(Commuting)
                                THEN COMMUTE_DAYS ELSE ANNUAL_MILEAGE
                   /\ StateWas(c) = ADD_ANOTHER_VEHICLE =>
                         next = IF value = BoolValue(TRUE) THEN VEHICLE_CHOICE ELSE LICENSE_TYPE
                   /\ StateWas(c) = LICENSE_TYPE =>
                         next = IF value = StrValue(Foreign) THEN COMPLETE ELSE LICENSE_STATUS]_vars
\* a conversation that went through the loop has just taken its last edge
C17_Witness ==
    \E c \in ConvIds :
        /\ Acted(c) /\ AcceptedAt(LastCall(c), LICENSE_STATUS)
        /\ State(c) = COMPLETE
        /\ Len(Vehicles(c)) = 2
        /\ \E i \in 1..Len(calls[c]) : InlineVinAccepted(calls[c][i])

ApplicantFields == {"zip_code", "full_name", "email", "license_type", "license_status"}

\* C18: the context snapshot of a conversation holds exactly its non-null
\* applicant fields and the number of its vehicles; a turn without an accepted
\* input (rejected or frustrated) leaves the snapshot as it was, and the
\* snapshot handed to the reply generator on a rejected turn is that same one.
C18_ContextSnapshot ==
    /\ [](\A c \in ConvIds :
             LET context == get_context(conversations[c])
             IN /\ DOMAIN context =
                      {"vehicles_count"} \cup
                          {f \in ApplicantFields : conversations[c][f] # None}
                /\ context.vehicles_count = Len(Vehicles(c))
                /\ \A f \in DOMAIN context \ {"vehicles_count"} :
                      conversations[c][f] = Some(context[f]))
    /\ [][\A c \in ConvIds :
             (Called(c) /\ ~AcceptedAt(LastCall(c)', StateWas(c))) =>
                 /\ get_context(conversations'[c]) = get_context(Was(c))
                 /\ ~LastCall(c)'.frustrated =>
                       Get(LastCall(c)'.generate).context = get_context(Was(c))]_vars
\* a rejected turn with two vehicles and no license yet
C18_Witness ==
    \E c \in ConvIds :
        /\ Acted(c) /\ ~LastCall(c).is_valid /\ ~LastCall(c).frustrated
        /\ Len(Vehicles(c)) = 2
        /\ DOMAIN get_context(conversations[c]) =
              {"zip_code", "full_name", "email", "vehicles_count"}
        /\ Get(LastCall(c).generate).context = get_context(conversations[c])

----------------------------------------------------------------------------
(* Two conversations served at once: the steps of their calls interleave.   *)

MaxPairTurns == 2
PairCheckpoints == {SubSeq(ScriptManual, 1, 3), SubSeq(ScriptManual, 1, 11)}
PairInputs == {ExampleVin, <<"y","e","s">>, <<"y","e","s",","," ","t","h","i","s"," ","i","s"," ","u","s","e","l","e","s","s">>}
PairEnvironments ==
    {Env0, Env(ApiRows(<<RowBadYear>>), MakesKnown, None, TRUE),
     Env(ApiRows(<<RowBadYear>>), MakesKnown, None, FALSE)}

InitPair ==
    \E first \in PairCheckpoints, second \in PairCheckpoints :
        \E one \in {Replay(first)}, other \in {Replay(second)} :
            /\ db = TablesOf([c \in ConvIds |->
                                 IF c = "a" THEN one.conversation ELSE other.conversation])
            /\ calls = [c \in ConvIds |-> IF c = "a" THEN one.calls ELSE other.calls]
            /\ turns = 0
            /\ inflight = [c \in ConvIds |-> None]

NextPair ==
    \E c \in ConvIds :
        \/ /\ turns < MaxPairTurns
           /\ \E message \in PairInputs : \E env \in PairEnvironments : Begin(c, message, env)
        \/ Advance(c)
        \/ Finish(c)

SpecPair == InitPair /\ [][NextPair]_vars

\* this step changes something of conversation c
Touches(c) ==
    \/ conversations'[c] # conversations[c]
    \/ calls'[c] # calls[c]
    \/ inflight'[c] # inflight[c]

\* C19: under every interleaving of the steps of two conversations' calls, a
\* step of one conversation changes neither the state, the applicant fields,
\* the vehicles nor the log that the shared tables hold for the other (nor
\* its call in progress), and every call ends with the conversation and the
\* reply that the same call gives when it runs alone on the conversation it
\* started from.
C19_ConversationsIndependent ==
    [][\A c \in ConvIds :
          /\ Touches(c) =>
                \A d \in ConvIds \ {c} :
                    /\ conversations'[d] = conversations[d]
                    /\ calls'[d] = calls[d]
                    /\ inflight'[d] = inflight[d]
          /\ (Called(c) /\ inflight[c] # None) =>
                \E alone \in {process_message(Get(inflight[c]).start,
                                              LastCall(c)'.user_message, LastCall(c)'.env)} :
                    /\ conversations'[c] = alone.conversation
                    /\ LastCall(c)' = alone.call]_vars
\* both conversations have a call in progress: one has saved an accepted value
\* and moved on while the other awaits its lookup, and the other logged its
\* user message in the shared table between two writes of the first
C19_Witness ==
    /\ inflight["a"] # None /\ inflight["b"] # None
    /\ Get(inflight["a"]).stage = "reply" /\ ~Get(inflight["a"]).call.frustrated
    /\ conversations["a"].current_state # Get(inflight["a"]).start.current_state
    /\ Get(inflight["b"]).stage = "validate"
    /\ conversations["a"].vehicles # conversations["b"].vehicles
    /\ db.message[Len(db.message)] =
          TableRow("b", Message("user", Get(inflight["b"]).call.user_message))
    /\ db.message[Len(db.message) - 1] =
          TableRow("a", Message("user", Get(inflight["a"]).call.user_message))
    /\ db.vehicle # <<>> /\ db.vehicle[Len(db.vehicle)].conversation_id = "a"

\* h holds the at most HistoryWindow most recent entries of log, in log order
IsRecentWindow(h, log) ==
    /\ Len(h) = (IF Len(log) > HistoryWindow THEN HistoryWindow ELSE Len(log))
    /\ \A k \in 1..Len(h) : h[k] = log[Len(log) - Len(h) + k]
\* the call rejected the input and the validator gave a non-empty reason
RejectedWithReason(call) ==
    /\ ~(call.is_valid /\ call.value # None)
    /\ call.error_msg # None /\ Get(call.error_msg) # <<>>
\* the reply generator was invoked in the call with the arguments the turn on
\* conversation c calls for; `after` is the conversation as the call leaves it
InvokedAsSpecified(call, after) ==
    /\ call.generate # None
    /\ \E g \in {Get(call.generate)} :
          /\ g.current_state = after.current_state
          /\ g.user_message = call.user_message
          /\ IsRecentWindow(g.conversation_history, BeforeReply(after).messages)
          /\ g.context = get_context(after)
          /\ (g.additional_context # None) <=> RejectedWithReason(call)

\* C20: on every turn that is not frustrated the reply generator is invoked
\* (once), with the state the conversation has after the turn's transition, the
\* raw user text, the at most 10 most recent log entries in log order, the
\* context snapshot of the record as the turn leaves it, and rejection guidance
\* exactly when the input was rejected with a non-empty reason.
C20_GeneratorInvocation ==
    [][\A c \in ConvIds :
          (Called(c) /\ ~LastCall(c)'.frustrated) =>
              InvokedAsSpecified(LastCall(c)', conversations'[c])]_vars

----------------------------------------------------------------------------
(* The keyword states.  A second specification starts in the states whose   *)
(* validators pick among keyword sets and answers with texts that hold      *)
(* several keywords at once.                                                 *)

MaxWordTurns == 2

\* the prefixes of ScriptManual that end in vehicle_choice (first and second
\* vehicle), vehicle_use, add_another_vehicle and license_type
WordCheckpoints == {SubSeq(ScriptManual, 1, n) : n \in {3, 7, 11, 12, 17}}

WordInputs ==
    {<<"v","i","n"," ","1","h","g","c","m","8","2","6","3","3","a","0","0","4","3","5","2"," ","m","a","n","u","a","l">>, <<"v","i","n"," ","o","r"," ","m","a","n","u","a","l">>, <<"M","y"," ","V","I","N">>, <<"y","e","a","r">>, <<"m","a","k","e">>,
     <<"m","a","n","u","a","l">>, <<"t","y","p","e">>, <<"o","t","h","e","r">>, <<"c","a","r">>,
     <<"c","o","m","m","u","t","i","n","g"," ","t","o"," ","m","y"," ","b","u","s","i","n","e","s","s">>, <<"c","o","m","m","e","r","c","i","a","l"," ","f","a","r","m"," ","c","o","m","m","u","t","e">>, <<"c","o","m","m","e","r","c","i","a","l"," ","f","a","r","m">>,
     <<"f","a","r","m"," ","b","u","s","i","n","e","s","s">>, <<"b","u","s","i","n","e","s","s">>,
     <<"y","e","s"," ","a","n","d"," ","n","o">>, <<"n","o">>, <<"f","o","r","e","i","g","n"," ","p","e","r","s","o","n","a","l">>, <<"p","e","r","s","o","n","a","l"," ","c","d","l">>, <<"c","d","l">>}

\* the lookup decodes the VIN (with a year, or with a text that is no year),
\* times out, or reports an invalid VIN; the other collaborators answer well
WordEnvironments(conversation, message) ==
    {env \in Environments(conversation, message) :
        /\ env.lookup.decode \in {ApiRows(<<RowFull>>), ApiRows(<<RowBadYear>>), ApiTimeout,
                                  ApiRows(<<RowInvalid>>)}
        /\ env.lookup.makes = MakesKnown
        /\ env.completion = Env0.completion
        /\ ~env.rollback}

InitWords ==
    \E script \in WordCheckpoints : \E run \in {Replay(script)} :
        /\ db = TablesOf([c \in ConvIds |->
                             IF c = "a" THEN run.conversation ELSE NewConversation])
        /\ calls = [c \in ConvIds |-> IF c = "a" THEN run.calls ELSE <<>>]
        /\ turns = 0
        /\ inflight = [c \in ConvIds |-> None]

NextWords ==
    \/ /\ turns < MaxWordTurns
       /\ \E message \in WordInputs : \E env \in WordEnvironments(conversations["a"], message) :
             Begin("a", message, env)
    \/ Advance("a")
    \/ Finish("a")

SpecWords == InitWords /\ [][NextWords]_vars

\* the text, lowercased, holds the keyword
Mentions(message, keyword) == Contains(Lower(Strip(message)), keyword)
ManualKeywords == {<<"y","e","a","r">>, <<"m","a","k","e">>, <<"m","a","n","u","a","l">>, <<"t","y","p","e">>, <<"o","t","h","e","r">>}
\* the call appended one empty vehicle sub-record to the vehicles of c
OneEmptyVehicleAdded(c) == conversations'[c].vehicles = Append(VehiclesWere(c), NewVehicle)

\* C21: in vehicle_choice a 17-character VIN pattern comes before every keyword:
\* when its decode fails the input is rejected with the lookup's error text, no
\* vehicle is created and the state stays vehicle_choice, whatever keywords the
\* text holds; without a VIN pattern a text that holds "vin" selects
\* vehicle_vin, else one that holds year, make, manual, type or other selects
\* vehicle_year, both creating one empty vehicle; any other text is rejected
\* with no guidance.
C21_VehicleChoicePriority ==
    [][\A c \in ConvIds :
          (Called(c) /\ ~LastCall(c)'.frustrated /\ LastCall(c)'.state_before = VEHICLE_CHOICE) =>
              \E call \in {LastCall(c)'} : \E vin \in {SearchVin(Strip(call.user_message))} :
                  IF vin # None
                  THEN \E result \in {decode_vin(Get(vin), call.env.lookup.decode)} :
                          ~result.valid =>
                              /\ ~call.is_valid /\ call.value = None
                              /\ call.error_msg = result.error /\ result.error # None
                              /\ GuidanceOf(call) # None
                              /\ conversations'[c].current_state = VEHICLE_CHOICE
                              /\ RecordUnchanged(c)
                  ELSE IF Mentions(call.user_message, <<"v","i","n">>)
                  THEN /\ call.is_valid
                       /\ conversations'[c].current_state = VEHICLE_VIN
                       /\ OneEmptyVehicleAdded(c)
                  ELSE IF \E k \in ManualKeywords : Mentions(call.user_message, k)
                  THEN /\ call.is_valid
                       /\ conversations'[c].current_state = VEHICLE_YEAR
                       /\ OneEmptyVehicleAdded(c)
                  ELSE /\ ~call.is_valid /\ call.error_msg = None
                       /\ GuidanceOf(call) = None
                       /\ conversations'[c].current_state = VEHICLE_CHOICE
                       /\ RecordUnchanged(c)]_vars
\* a text with a VIN, "vin" and "manual" was rejected in vehicle_choice because
\* the lookup timed out, and the conversation has as many vehicles as before
C21_Witness ==
    \E c \in ConvIds :
        /\ Acted(c)
        /\ LastCall(c).state_before = VEHICLE_CHOICE /\ State(c) = VEHICLE_CHOICE
        /\ SearchVin(LastCall(c).user_message) # None
        /\ Mentions(LastCall(c).user_message, <<"m","a","n","u","a","l">>)
        /\ DecodeFailed(LastCall(c).env.lookup.decode)
        /\ ~LastCall(c).is_valid /\ LastCall(c).error_msg # None
        /\ Len(Vehicles(c)) = 1

\* the vehicles of c before the open one are as they were
EarlierVehiclesKept(c) ==
    /\ Len(conversations'[c].vehicles) = Len(VehiclesWere(c))
    /\ \A i \in 1..(Len(VehiclesWere(c)) - 1) : conversations'[c].vehicles[i] = VehiclesWere(c)[i]

\* C22: in vehicle_vin an input with a 17-character VIN that decodes as valid
\* stores, in that turn, the VIN and the decoded year, make and body type on
\* the open vehicle and moves the state to vehicle_use; vehicle_year,
\* vehicle_make and vehicle_body are entered only along the manual path, never
\* from vehicle_vin.  An input without a VIN pattern, or whose decode is not
\* valid, is rejected and the open vehicle is unchanged.
C22_VinStateDecode ==
    [][\A c \in ConvIds :
          /\ (Called(c) /\ ~LastCall(c)'.frustrated /\ LastCall(c)'.state_before = VEHICLE_VIN) =>
                \E call \in {LastCall(c)'} : \E vin \in {SearchVin(Strip(call.user_message))} :
                    IF vin # None /\ decode_vin(Get(vin), call.env.lookup.decode).valid
                    THEN \E result \in {decode_vin(Get(vin), call.env.lookup.decode)} :
                            /\ conversations'[c].current_state = VEHICLE_USE
                            /\ EarlierVehiclesKept(c)
                            /\ Last(conversations'[c].vehicles) =
                                  [Last(VehiclesWere(c)) EXCEPT !.vin = vin, !.year = YearOf(result),
                                                        !.make = result.make,
                                                        !.body_type = result.body_class]
                    ELSE /\ ~call.is_valid
                         /\ conversations'[c].current_state = VEHICLE_VIN
                         /\ conversations'[c].vehicles = VehiclesWere(c)
          /\ StateWas(c) = VEHICLE_VIN =>
                conversations'[c].current_state \in {VEHICLE_VIN, VEHICLE_USE}]_vars

\* the keywords of vehicle_use and of license_type with the values they stand
\* for, in the order of priority
UseKeywords ==
    <<<<<<"c","o","m","m","u","t">>, <<"c","o","m","m","u","t","i","n","g">>>>, <<<<"c","o","m","m","e","r","c","i","a","l">>, <<"c","o","m","m","e","r","c","i","a","l">>>>,
      <<<<"f","a","r","m">>, <<"f","a","r","m","i","n","g">>>>, <<<<"b","u","s","i","n","e","s","s">>, <<"b","u","s","i","n","e","s","s">>>>>>
LicenseKeywords ==
    <<<<<<"f","o","r","e","i","g","n">>, <<"f","o","r","e","i","g","n">>>>, <<<<"p","e","r","s","o","n","a","l">>, <<"p","e","r","s","o","n","a","l">>>>,
      <<<<"c","o","m","m","e","r","c","i","a","l">>, <<"c","o","m","m","e","r","c","i","a","l">>>>, <<<<"c","d","l">>, <<"c","o","m","m","e","r","c","i","a","l">>>>>>
\* the value of the first keyword of the table that the text holds, if any
Resolved(message, table) ==
    LET hits == {i \in 1..Len(table) : Mentions(message, table[i][1])}
    IN IF hits = {} THEN None ELSE Some(StrValue(table[Min(hits)][2]))
BlindSpotYes == {<<"y","e","s">>, <<"y","e","a","h">>, <<"y","e","p">>, <<"h","a","v","e">>, <<"e","q","u","i","p","p","e","d">>, <<"d","o","e","s">>}
BlindSpotNo == {<<"n","o">>, <<"n","o","p","e">>, <<"n","o","t">>, <<"d","o","n","'","t">>, <<"d","o","e","s","n","'","t">>}
AddAnotherYes == {<<"y","e","s">>, <<"y","e","a","h">>, <<"y","e","p">>, <<"a","n","o","t","h","e","r">>, <<"a","d","d">>, <<"m","o","r","e">>}
AddAnotherNo == {<<"n","o">>, <<"n","o","p","e">>, <<"d","o","n","e">>, <<"t","h","a","t","'","s"," ","a","l","l">>, <<"t","h","a","t","'","s"," ","i","t">>}
\* the yes/no answer of a text: yes as soon as it holds an affirmative keyword
ResolvedAnswer(message, yes, no) ==
    IF \E k \in yes : Mentions(message, k) THEN Some(BoolValue(TRUE))
    ELSE IF \E k \in no : Mentions(message, k) THEN Some(BoolValue(FALSE))
    ELSE None
\* the text holds keywords of both sets
Ambiguous(message, yes, no) ==
    (\E k \in yes : Mentions(message, k)) /\ (\E k \in no : Mentions(message, k))

\* C23: a text that holds several keywords is resolved by the first set that
\* matches: commut, commercial, farm, business in vehicle_use; yes before no in
\* blind_spot_warning and add_another_vehicle; foreign, personal,
\* commercial/cdl in license_type.  The value so resolved is the one stored and
\* the one the next state follows: commute_days or annual_mileage after the
\* blind-spot answer by the stored use, vehicle_choice or license_type, complete
\* or license_status.
C23_KeywordPriority ==
    [][\A c \in ConvIds : (Called(c) /\ ~LastCall(c)'.frustrated) =>
          \E call \in {LastCall(c)'} : \E after \in {conversations'[c]} :
             /\ call.state_before = VEHICLE_USE =>
                   \E use \in {Resolved(call.user_message, UseKeywords)} :
                       /\ call.value = use
                       /\ use # None =>
                             /\ Last(after.vehicles).vehicle_use = Some(Get(use).val)
                             /\ after.current_state = BLIND_SPOT_WARNING
             /\ call.state_before = BLIND_SPOT_WARNING =>
                   \E answer \in {ResolvedAnswer(call.user_message, BlindSpotYes, BlindSpotNo)} :
                       /\ call.value = answer
                       /\ answer # None =>
                             /\ Last(after.vehicles).blind_spot_warning = Some(Get(answer).val)
                             /\ after.current_state =
                                   IF UseOf(Last(VehiclesWere(c))) = Some(Commuting)
                                   THEN COMMUTE_DAYS ELSE ANNUAL_MILEAGE
             /\ call.state_before = ADD_ANOTHER_VEHICLE =>
                   \E answer \in {ResolvedAnswer(call.user_message, AddAnotherYes, AddAnotherNo)} :
                       /\ call.value = answer
                       /\ answer # None =>
                             after.current_state =
                                 IF Get(answer).val THEN VEHICLE_CHOICE ELSE LICENSE_TYPE
             /\ call.state_before = LICENSE_TYPE =>
                   \E type \in {Resolved(call.user_message, LicenseKeywords)} :
                       /\ call.value = type
                       /\ type # None =>
                             /\ after.license_type = Some(Get(type).val)
                             /\ after.current_state =
                                   IF Get(type).val = <<"f","o","r","e","i","g","n">>
                                   THEN COMPLETE ELSE LICENSE_STATUS]_vars
\* a text with "commut" and "business" was taken as commuting in vehicle_use,
\* the next with "yes" and "no" as yes in blind_spot_warning, and the state is
\* commute_days
C23_Witness ==
    \E c \in ConvIds :
        /\ turns = 2 /\ State(c) = COMMUTE_DAYS
        /\ LastCall(c).state_before = BLIND_SPOT_WARNING
        /\ Ambiguous(LastCall(c).user_message, BlindSpotYes, BlindSpotNo)
        /\ OpenVehicle(c).blind_spot_warning = Some(TRUE)
        /\ \E first \in {calls[c][Len(calls[c]) - 1]} :
              /\ first.state_before = VEHICLE_USE
              /\ Mentions(first.user_message, <<"c","o","m","m","u","t">>)
              /\ Mentions(first.user_message, <<"b","u","s","i","n","e","s","s">>)

\* an optional number that is absent or within the range
AbsentOrIn(field, low, high) == field = None \/ (Get(field) >= low /\ Get(field) <= high)
AbsentOrPositive(field) == field = None \/ Get(field) > 0

\* C24: in every reachable state every vehicle, entered manually or by a VIN
\* decode, has a year that is absent or an integer in 1900..2026, a
\* days_per_week that is absent or in 1..7, and a one_way_miles and an
\* annual_mileage that are absent or greater than 0.
C24_ValueRanges ==
    \A c \in ConvIds : \A i \in 1..Len(Vehicles(c)) :
        /\ AbsentOrIn(Vehicles(c)[i].year, MinYear, MaxYear)
        /\ AbsentOrIn(Vehicles(c)[i].days_per_week, 1, 7)
        /\ AbsentOrPositive(Vehicles(c)[i].one_way_miles)
        /\ AbsentOrPositive(Vehicles(c)[i].annual_mileage)

\* the states in which a vehicle is being filled in
PerVehicleStates ==
    {VEHICLE_VIN, VEHICLE_YEAR, VEHICLE_MAKE, VEHICLE_BODY, VEHICLE_USE, BLIND_SPOT_WARNING,
     COMMUTE_DAYS, COMMUTE_MILES, ANNUAL_MILEAGE, ADD_ANOTHER_VEHICLE}

\* C25: whenever the state is one of the per-vehicle states the conversation
\* has at least one vehicle, and in blind_spot_warning the open vehicle's use
\* is populated; an accepted value in such a state is always stored on the
\* open vehicle: every call that accepts a value there finds the open vehicle
\* and leaves the value on it, the field of the state in the states that have
\* one and the decode result in vehicle_vin.
C25_OpenVehicleExists ==
    /\ [](\A c \in ConvIds :
             /\ State(c) \in PerVehicleStates =>
                   Vehicles(c) # <<>> /\ get_current_vehicle(conversations[c]) # None
             /\ State(c) = BLIND_SPOT_WARNING => UseOf(OpenVehicle(c)) # None)
    /\ [][\A c \in ConvIds : \A s \in PerVehicleStates :
             (Called(c) /\ AcceptedAt(LastCall(c)', s)) =>
                 /\ get_current_vehicle(Was(c)) = Some(Last(VehiclesWere(c)))
                 /\ conversations'[c].vehicles # <<>>
                 /\ s \in FieldStates =>
                       Last(conversations'[c].vehicles)[FieldOf(s)] =
                           Some(Get(LastCall(c)'.value).val)
                 /\ s = VEHICLE_VIN =>
                       HoldsDecode(Last(conversations'[c].vehicles),
                                   Get(LastCall(c)'.value).val)]_vars

\* C26: whenever the state is complete the application is complete: zip code,
\* full name, email and license type are populated, there is at least one
\* vehicle, and the license status is populated exactly when the license type
\* is not foreign.
C26_CompleteApplication ==
    \A c \in ConvIds : State(c) = COMPLETE =>
        /\ conversations[c].zip_code # None
        /\ conversations[c].full_name # None
        /\ conversations[c].email # None
        /\ conversations[c].license_type # None
        /\ Len(Vehicles(c)) >= 1
        /\ (conversations[c].license_status # None) <=>
              (conversations[c].license_type # Some(Foreign))
\* complete was reached by a foreign license, and a further call in complete
\* has been answered
C26_Witness ==
    \E c \in ConvIds :
        /\ Acted(c) /\ LastCall(c).state_before = COMPLETE /\ State(c) = COMPLETE
        /\ conversations[c].license_type = Some(Foreign)
        /\ conversations[c].license_status = None

\* vehicle i of c is no longer being filled in
Finished(c, i) ==
    \/ i < Len(Vehicles(c))
    \/ State(c) \in {ADD_ANOTHER_VEHICLE, LICENSE_TYPE, LICENSE_STATUS, COMPLETE}
\* use and blind-spot answer, one of the two mileage forms, and the fields of
\* the vehicle's way of entry (by VIN when it has one, manually otherwise)
FullySpecified(vehicle) ==
    /\ vehicle.vehicle_use # None /\ vehicle.blind_spot_warning # None
    /\ \/ /\ vehicle.days_per_week # None /\ vehicle.one_way_miles # None
          /\ vehicle.annual_mileage = None
       \/ /\ vehicle.days_per_week = None /\ vehicle.one_way_miles = None
          /\ vehicle.annual_mileage # None
    /\ IF vehicle.vin = None
       THEN vehicle.year # None /\ vehicle.make # None /\ vehicle.body_type # None
       ELSE vehicle.make # None

\* C27: every vehicle that is no longer being filled in (every vehicle but the
\* last, and every vehicle once the state is add_another_vehicle, license_type,
\* license_status or complete) is fully specified: use and blind-spot answer
\* populated, exactly one of days_per_week with one_way_miles and
\* annual_mileage, and year, make and body without a VIN when entered manually,
\* the VIN and the make when entered by VIN.
C27_FinishedVehiclesComplete ==
    \A c \in ConvIds : \A i \in 1..Len(Vehicles(c)) :
        Finished(c, i) => FullySpecified(Vehicles(c)[i])

\* the edges of the flow graph without the loop back from add_another_vehicle
ForwardEdges == FlowEdges \ {<<ADD_ANOTHER_VEHICLE, VEHICLE_CHOICE>>}
\* the most turns a conversation in state s still needs to reach complete when
\* every turn is accepted and add_another_vehicle is answered "no"
RECURSIVE TurnsToComplete(_)
TurnsToComplete(s) ==
    IF s = COMPLETE THEN 0
    ELSE 1 + Max({TurnsToComplete(e[2]) : e \in {e \in ForwardEdges : e[1] = s}})
\* some input, with the lookup answering, is accepted in the state of c and
\* changes it
CanAdvance(c) ==
    \E message \in Inputs : \E r \in {process_message(conversations[c], message, Env0)} :
        /\ AcceptedAt(r.call, State(c))
        /\ r.conversation.current_state # State(c)

\* C28: progress.  From every reachable state other than complete some accepted
\* input advances the state; every accepted turn in a state other than complete
\* changes the state, and unless it is the "yes" at add_another_vehicle it
\* brings the conversation strictly closer to complete, so that a user who
\* keeps giving accepted inputs, with the lookup answering, and who at some
\* point answers "no" at add_another_vehicle reaches complete.
C28_Progress ==
    /\ [](\A c \in ConvIds : State(c) # COMPLETE => CanAdvance(c))
    /\ [][\A c \in ConvIds :
             (Called(c) /\ StateWas(c) # COMPLETE /\ AcceptedAt(LastCall(c)', StateWas(c))) =>
                 /\ conversations'[c].current_state # StateWas(c)
                 /\ (StateWas(c) = ADD_ANOTHER_VEHICLE /\ Get(LastCall(c)'.value).val = TRUE)
                    \/ TurnsToComplete(conversations'[c].current_state) < TurnsToComplete(StateWas(c))]_vars

====
